---- MODULE Spec2Model ----
(***************************************************************************)
(* Relay-reset control loop of the Netatmo temperature monitor.            *)
(*                                                                         *)
(* The repository holds two /check handlers and one /reset handler:        *)
(*   - src/index.ts      GET /check, drift based, with the max-mode        *)
(*                       failsafe, no delayed callback;                    *)
(*   - src/api/check.ts  GET /check, threshold based, schedules the        *)
(*                       delayed reset callback through QStash;            *)
(*   - api/reset.ts      POST /reset, the callback's handler.              *)
(* Each handler is one action.  A handler's awaited calls run in program   *)
(* order inside the action; the call that throws is an input (failAt).     *)
(* EventLogger.logEvent and NetatmoClient.detectDrift are also run by      *)
(* themselves, and the credentials of lib/netatmo.ts (getAccessToken) one  *)
(* awaited call at a time, so that invocations interleave.                 *)
(*                                                                         *)
(* Temperatures are in tenths of a degree Celsius, vendor times in         *)
(* seconds, the local clock (Date.now()) in milliseconds.                  *)
(***************************************************************************)
EXTENDS Integers, Sequences, FiniteSets, TLC

VARIABLES
    mode,       \* vendor: therm_setpoint_mode of every room
    endtime,    \* vendor: end time of the room's current setpoint, NoEnd if none
    queue,      \* QStash: outstanding reset callbacks, payload -> how many
    events,     \* Redis sorted set netatmo:overages (members; score = timestamp)
    nowMs,      \* Date.now() of the local clock
    handler,    \* the invocation that has just returned: which handler ran
    req,        \*   the request or arguments it was given
    resp,       \*   its response (HTTP code and summary)
    snap,       \*   the thermostats its discovery returned
    trace,      \*   the gateway calls it completed, in order
    results,    \*   its results array, as far as it was filled
    kv,         \* Redis keys netatmo:access_token (with its expiry) and netatmo:refresh_token
    oauth,      \* vendor: the refresh token it accepts, the access tokens it issued
    inv,        \* the invocations of getAccessToken: where each one is, what it holds
    epoch,      \* the time in seconds, of the vendor and of Redis
    exchanges,  \* the OAuth exchanges made so far, in order
    appends     \* the invocations of logEvent that run side by side: where each
                \* one is, and the entries inserted so far, in order

relayVars == <<mode, endtime, queue, events, nowMs, handler, req, resp, snap, trace, results>>

tokenVars == <<kv, oauth, inv, epoch, exchanges>>

restVars == <<tokenVars, appends>>

vars == <<relayVars, restVars>>

---------------------------------------------------------------------------
\* Bounds of the model

\* Retention bound of the event log (the source keeps 1000 events).
MAX_EVENTS_TO_KEEP == 1
\* Outstanding callbacks per payload.
MaxQueue == 1
\* The local clock runs from 0 to MaxClockSteps * ClockStepMs.
MaxClockSteps == 1

\* Program constants (retention apart, which is scaled down above)
MIN_MINUTES_SINCE_DROP == 10
MIN_TEMP_RISE == 5
OVERAGE_THRESHOLD == 10
MaxModeSeconds == 60
LegacyMaxModeSeconds == 30

\* Milliseconds the local clock moves on at a time
ClockStepMs == 500

NoEnd == 0 - 1

\* Calls in a sequence of logEvent calls
MaxLogCalls == 3

\* Points of a measurement series handed to detectDrift by itself
MaxPoints == 4

\* OAuth exchanges, and the hours that pass
MaxExchanges == 3
MaxTicks == 3
TickSeconds == 3600

---------------------------------------------------------------------------
\* Topology of the account (homesdata)

HomeOrder == <<"h1", "h2", "h3">>

Homes == {HomeOrder[i] : i \in 1..Len(HomeOrder)}

\* home.modules?.some(NAPlug | NATherm1 | NRV)
HasThermostat(h) == h \in {"h1", "h2"}

\* homeStatus.body.home.rooms of a home, in the vendor's order
RoomsOf(h) == IF h = "h1" THEN <<"r1">> ELSE IF h = "h2" THEN <<"r2">> ELSE <<"r3">>

Handle(h, r) == [homeId |-> h, roomId |-> r]

Units ==
    UNION {{Handle(h, RoomsOf(h)[i]) : i \in 1..Len(RoomsOf(h))} : h \in {x \in Homes : HasThermostat(x)}}

Modes == {"schedule", "manual", "max", "off"}

\* (therm_measured_temperature, therm_setpoint_temperature) a status read returns
Readings == {<<200, 190>>, <<215, 190>>}

\* time_server a status read returns
ServerTimes == {2000}

---------------------------------------------------------------------------
\* One invocation's context: the shared state it has reached, what it has
\* done so far, and its inputs (failAt: the gateway call that throws, 0 for
\* none; adv: whether the local clock moves on before each Date.now()).

NewCtx(failAt, adv) ==
    [mode |-> mode, endtime |-> endtime, queue |-> queue, events |-> events,
     now |-> nowMs, trace |-> <<>>, results |-> <<>>, count |-> 0, calls |-> 0,
     failed |-> FALSE, failAt |-> failAt, adv |-> adv]

\* An awaited call to Netatmo, Redis or QStash: the failAt-th one throws.
Await(c) ==
    IF c.failed THEN c
    ELSE [c EXCEPT !.calls = @ + 1, !.failed = (c.calls + 1 = c.failAt)]

\* A completed gateway call, as the trace keeps it.  v1, v2: the end time of
\* a mode command; the temperature and setpoint of a log entry; the
\* originalSetpoint of a scheduled payload.  added: ZADD's reply.
Call(op, unit, kind, v1, v2, added) ==
    [op |-> op, unit |-> unit, kind |-> kind, v1 |-> v1, v2 |-> v2, added |-> added]

\* Date.now()
DateNow(c) ==
    IF c.adv /\ c.now < MaxClockSteps * ClockStepMs THEN c.now + ClockStepMs ELSE c.now

---------------------------------------------------------------------------
\* Event log (lib/redis.ts)

EventTypes == {"overage_detected", "reset_triggered", "reset_completed"}

\* fullEvent of logEvent: the member is its JSON, the score its timestamp
OverageEvent(type, unit, currentTemp, setpoint, timestamp) ==
    [type |-> type, homeId |-> unit.homeId, roomId |-> unit.roomId,
     currentTemp |-> currentTemp, setpoint |-> setpoint,
     diff |-> currentTemp - setpoint, timestamp |-> timestamp]

\* Order of two strings of the model, as JavaScript and Redis compare them
StrRank(s) ==
    CASE s = "h1" -> 1 [] s = "h2" -> 2 [] s = "h3" -> 3
      [] s = "r1" -> 1 [] s = "r2" -> 2 [] s = "r3" -> 3
      [] s = "overage_detected" -> 1 [] s = "reset_completed" -> 2
      [] s = "reset_triggered" -> 3
      [] OTHER -> 0

\* Sorted-set order: by score, members of one score in lexical order of the
\* JSON text (type, homeId, roomId, currentTemp, setpoint come first in it;
\* the temperatures of the model are two digits before the point, so their
\* texts order as the numbers do).
EventBefore(a, b) ==
    LET ka == <<a.timestamp, StrRank(a.type), StrRank(a.homeId), StrRank(a.roomId),
                a.currentTemp, a.setpoint>>
        kb == <<b.timestamp, StrRank(b.type), StrRank(b.homeId), StrRank(b.roomId),
                b.currentTemp, b.setpoint>>
    IN  \E i \in 1..6 : ka[i] < kb[i] /\ \A j \in 1..(i - 1) : ka[j] = kb[j]

\* 0-based rank of a member in the sorted set
RankOf(e, set) == Cardinality({x \in set : EventBefore(x, e)})

\* A trim that takes the given number of ranks from the top of the set
ZRemRangeByRankFromTop(set, lo, hi) ==
    {e \in set : ~(lo <= Cardinality(set) - 1 - RankOf(e, set)
                    /\ Cardinality(set) - 1 - RankOf(e, set) <= hi)}

\* ZREMRANGEBYRANK key lo hi (both ranks >= 0 here)
ZRemRangeByRank(set, lo, hi) == {e \in set : ~(lo <= RankOf(e, set) /\ RankOf(e, set) <= hi)}

\* EventLogger.logEvent: ZADD, ZCARD, and ZREMRANGEBYRANK when over the bound.
\* A Redis failure is injected at the ZADD: the call throws with nothing
\* written.
LogEvent(c, type, unit, currentTemp, setpoint) ==
    IF c.failed THEN c
    ELSE
    LET ts == DateNow(c)
        fullEvent == OverageEvent(type, unit, currentTemp, setpoint, ts)
        a == Await([c EXCEPT !.now = ts])
        added == a.events \cup {fullEvent}
        count == Cardinality(added)
    IN  IF a.failed THEN a
        ELSE [a EXCEPT !.events = IF count > MAX_EVENTS_TO_KEEP
                                  THEN ZRemRangeByRank(added, 0, count - MAX_EVENTS_TO_KEEP - 1)
                                  ELSE added,
                       !.trace = Append(@, Call("log", unit, type, currentTemp, setpoint,
                                                IF fullEvent \in a.events THEN 0 ELSE 1))]

LogOverageDetected(c, unit, currentTemp, setpoint) ==
    LogEvent(c, "overage_detected", unit, currentTemp, setpoint)

LogResetTriggered(c, unit, currentTemp, setpoint) ==
    LogEvent(c, "reset_triggered", unit, currentTemp, setpoint)

LogResetCompleted(c, unit, currentTemp, setpoint) ==
    LogEvent(c, "reset_completed", unit, currentTemp, setpoint)

\* The members of a sorted set in rank order
InRankOrder(set) ==
    [i \in 1..Cardinality(set) |-> CHOOSE e \in set : RankOf(e, set) = i - 1]

\* ZRANGE key lo hi BYSCORE: the members with lo <= score <= hi, lowest first
ZRangeByScore(set, lo, hi) ==
    InRankOrder({e \in set : lo <= e.timestamp /\ e.timestamp <= hi})

\* ZRANGE key lo hi REV: the members at the 0-based positions lo..hi of the
\* set read from its highest rank down; a negative index counts from the end.
ZRangeRev(set, lo, hi) ==
    LET n == Cardinality(set)
        all == InRankOrder(set)
        from == IF lo < 0 THEN (IF n + lo < 0 THEN 0 ELSE n + lo) ELSE lo
        upto == IF hi < 0 THEN n + hi ELSE IF hi > n - 1 THEN n - 1 ELSE hi
    IN  IF from > upto THEN <<>>
        ELSE [k \in 1..(upto - from + 1) |-> all[n - (from + k - 1)]]

\* EventLogger.getRecentEvents: Date.now() is read for each bound left out,
\* then one ZRANGE by score; the members are parsed back into events.
GetRecentEvents(c, startTime, endTime) ==
    LET c1 == IF startTime = <<>> THEN [c EXCEPT !.now = DateNow(c)] ELSE c
        start == IF startTime = <<>> THEN c1.now - 24 * 60 * 60 * 1000 ELSE startTime[1]
        c2 == IF endTime = <<>> THEN [c1 EXCEPT !.now = DateNow(c1)] ELSE c1
        end == IF endTime = <<>> THEN c2.now ELSE endTime[1]
        a == Await(c2)
    IN  [c |-> a, out |-> IF a.failed THEN <<>> ELSE ZRangeByScore(a.events, start, end)]

\* EventLogger.getEventCounts: the events of getRecentEvents counted by type
GetEventCounts(c, startTime, endTime) ==
    LET r == GetRecentEvents(c, startTime, endTime)
    IN  [c |-> r.c,
         out |-> IF r.c.failed THEN <<>>
                 ELSE <<[t \in EventTypes |->
                           Cardinality({i \in 1..Len(r.out) : r.out[i].type = t})]>>]

\* EventLogger.getAllEvents(offset = 0, limit = 100): one ZRANGE by reverse
\* rank
GetAllEvents(c, offset, limit) ==
    LET off == IF offset = <<>> THEN 0 ELSE offset[1]
        lim == IF limit = <<>> THEN 100 ELSE limit[1]
        a == Await(c)
    IN  [c |-> a, out |-> IF a.failed THEN <<>> ELSE ZRangeRev(a.events, off, off + lim - 1)]

\* logEvent one awaited call at a time, so that invocations interleave.
\* call[p]: where invocation p is (pc), the entry it is logging and the count
\* it read; order: the entries inserted into the store, first to last;
\* begun: the invocations begun so far.
NotLogging == [pc |-> "idle", event |-> <<>>, count |-> 0]

InitAppends == appends = [call |-> [p \in {1, 2} |-> NotLogging], order |-> <<>>, begun |-> 0]

\* logEvent is called: Date.now() and the fullEvent are computed
LogEventBegins(p, type, unit, currentTemp, setpoint, adv) ==
    /\ appends.call[p].pc = "idle"
    /\ appends.begun < MaxLogCalls
    /\ LET ts == IF adv /\ nowMs < MaxClockSteps * ClockStepMs THEN nowMs + ClockStepMs
                 ELSE nowMs
       IN  /\ nowMs' = ts
           /\ appends' = [appends EXCEPT
                             !.call[p] = [pc |-> "zadd", count |-> 0,
                                          event |-> <<OverageEvent(type, unit, currentTemp,
                                                                   setpoint, ts)>>],
                             !.begun = @ + 1]
    /\ UNCHANGED <<mode, endtime, queue, events, handler, req, resp, snap, trace, results,
                   tokenVars>>

\* await redis.zadd(key, {score: timestamp, member}): a member the set holds
\* already is not added again
ZAdd(p, fault) ==
    /\ appends.call[p].pc = "zadd"
    /\ IF fault
       THEN /\ appends' = [appends EXCEPT !.call[p] = NotLogging]
            /\ events' = events
       ELSE LET e == appends.call[p].event[1]
            IN  /\ events' = events \cup {e}
                /\ appends' = [appends EXCEPT
                                  !.call[p].pc = "zcard",
                                  !.order = IF e \in events THEN @ ELSE Append(@, e)]
    /\ UNCHANGED <<mode, endtime, queue, nowMs, handler, req, resp, snap, trace, results,
                   tokenVars>>

\* await redis.zcard(key), and the test count > MAX_EVENTS_TO_KEEP
ZCard(p, fault) ==
    /\ appends.call[p].pc = "zcard"
    /\ IF fault
       THEN appends' = [appends EXCEPT !.call[p] = NotLogging]
       ELSE LET count == Cardinality(events)
            IN  appends' = [appends EXCEPT
                              !.call[p] = IF count > MAX_EVENTS_TO_KEEP
                                          THEN [@ EXCEPT !.pc = "zremrangebyrank",
                                                         !.count = count]
                                          ELSE NotLogging]
    /\ UNCHANGED <<mode, endtime, queue, events, nowMs, handler, req, resp, snap, trace,
                   results, tokenVars>>

\* await redis.zremrangebyrank(key, 0, count - MAX_EVENTS_TO_KEEP - 1), with
\* the count read before
ZRemRange(p, fault) ==
    /\ appends.call[p].pc = "zremrangebyrank"
    /\ events' = IF fault THEN events
                 ELSE ZRemRangeByRank(events, 0, appends.call[p].count - MAX_EVENTS_TO_KEEP - 1)
    /\ appends' = [appends EXCEPT !.call[p] = NotLogging]
    /\ UNCHANGED <<mode, endtime, queue, nowMs, handler, req, resp, snap, trace, results,
                   tokenVars>>

---------------------------------------------------------------------------
\* Vendor gateway (lib/netatmo.ts); an absent optional argument is <<>>,
\* a present one <<v>>.

\* What POST /setroomthermpoint does at the vendor: "home" returns the room to
\* its schedule, the other modes are taken as given with the end time sent.
VendorMode(m) == IF m = "home" THEN "schedule" ELSE m

\* NetatmoClient.setRoomThermPoint (params.endtime only when endtime is given)
SetRoomThermPoint(c, unit, m, endt) ==
    LET a == Await(c)
    IN  IF a.failed THEN a
        ELSE [a EXCEPT !.mode[unit] = VendorMode(m),
                       !.endtime[unit] = IF endt = <<>> \/ m = "home" THEN NoEnd ELSE endt[1],
                       !.trace = Append(@, Call("cmd", unit, m,
                                                IF endt = <<>> THEN NoEnd ELSE endt[1], 0, 0))]

\* setRoomToMax gone wrong: the end time is left out of the command
SetRoomToMaxNoExpiry(c, unit, serverTime) ==
    IF c.failed THEN c ELSE SetRoomThermPoint(c, unit, "max", <<>>)

\* NetatmoClient.setRoomToMax(homeId, roomId, serverTime?)
SetRoomToMax(c, unit, serverTime) ==
    IF c.failed THEN c
    ELSE
    LET ts == IF serverTime = <<>> THEN DateNow(c) ELSE c.now
        baseTime == IF serverTime = <<>> THEN ts \div 1000 ELSE serverTime[1]
        endt == baseTime + MaxModeSeconds
    IN  SetRoomThermPoint([c EXCEPT !.now = ts], unit, "max", <<endt>>)

\* NetatmoClient.setRoomToHome
SetRoomToHome(c, unit) == SetRoomThermPoint(c, unit, "home", <<>>)

\* setRoomToMax of the client kept in lib/redis.ts
LegacySetRoomToMax(c, unit, serverTime) ==
    LET endt == serverTime + LegacyMaxModeSeconds
    IN  SetRoomThermPoint(c, unit, "max", <<endt>>)

\* NetatmoClient.getRoomMeasure: one authenticated GET
GetRoomMeasure(c, unit) ==
    LET a == Await(c)
    IN  IF a.failed THEN a
        ELSE [a EXCEPT !.trace = Append(@, Call("measure", unit, "", 0, 0, 0))]

\* NetatmoClient.getHomeStatus as the reset handler calls it
GetHomeStatus(c, unit) ==
    LET a == Await(c)
    IN  IF a.failed THEN a
        ELSE [a EXCEPT !.trace = Append(@, Call("status", unit, "", 0, 0, 0))]

MeasurePoint(timestamp, temperature, setpoint) ==
    [timestamp |-> timestamp, temperature |-> temperature, setpoint |-> setpoint]

\* The points of one series: beg_time + i * step_time, i from 0
RECURSIVE SeriesPoints(_, _)
SeriesPoints(series, i) ==
    IF i > Len(series.value) THEN <<>>
    ELSE <<MeasurePoint(series.beg_time + (i - 1) * series.step_time,
                        series.value[i][1], series.value[i][2])>>
         \o SeriesPoints(series, i + 1)

RECURSIVE FlattenBody(_)
FlattenBody(body) ==
    IF body = <<>> THEN <<>> ELSE SeriesPoints(Head(body), 1) \o FlattenBody(Tail(body))

\* Array.prototype.sort((a, b) => a.timestamp - b.timestamp): stable
RECURSIVE InsertPoint(_, _)
InsertPoint(sorted, p) ==
    IF sorted = <<>> THEN <<p>>
    ELSE IF Head(sorted).timestamp <= p.timestamp
         THEN <<Head(sorted)>> \o InsertPoint(Tail(sorted), p)
         ELSE <<p>> \o sorted

\* A sort that leaves the points as they came
SortPointsAsGiven(points) == points

RECURSIVE SortPoints(_)
SortPoints(points) ==
    IF points = <<>> THEN <<>>
    ELSE InsertPoint(SortPoints(SubSeq(points, 1, Len(points) - 1)), points[Len(points)])

\* NetatmoClient.parseMeasureData
ParseMeasureData(body) == SortPoints(FlattenBody(body))

NotDrifting ==
    [isDrifting |-> FALSE, setpointDropTime |-> <<>>, tempAtDrop |-> <<>>,
     currentTemp |-> <<>>, tempRise |-> <<>>, minutesSinceDrop |-> <<>>]

\* A division that drops the fraction
RoundDivDown(a, b) == a \div b

\* Math.round of a / b, b > 0: floor(a / b + 1/2)
RoundDiv(a, b) == (2 * a + b) \div (2 * b)

\* The loop gone wrong: a rise equal to minTempRise does not count
RECURSIVE DriftScanStrictRise(_, _, _, _, _)
DriftScanStrictRise(points, i, serverTime, minSecondsSinceDrop, minTempRise) ==
    IF i < 2 THEN NotDrifting
    ELSE
    LET prev == points[i - 1]
        curr == points[i]
        currentPoint == points[Len(points)]
        secondsSinceDrop == serverTime - curr.timestamp
        tempAtDrop == curr.temperature
        tempRise == currentPoint.temperature - tempAtDrop
    IN  IF curr.setpoint < prev.setpoint
        THEN IF secondsSinceDrop >= minSecondsSinceDrop /\ tempRise > minTempRise
             THEN [isDrifting |-> TRUE, setpointDropTime |-> <<curr.timestamp>>,
                   tempAtDrop |-> <<tempAtDrop>>,
                   currentTemp |-> <<currentPoint.temperature>>,
                   tempRise |-> <<tempRise>>,
                   minutesSinceDrop |-> <<RoundDiv(secondsSinceDrop, 60)>>]
             ELSE NotDrifting
        ELSE DriftScanStrictRise(points, i - 1, serverTime, minSecondsSinceDrop, minTempRise)

\* The loop gone wrong: the time since the drop is not looked at
RECURSIVE DriftScanNoMargin(_, _, _, _, _)
DriftScanNoMargin(points, i, serverTime, minSecondsSinceDrop, minTempRise) ==
    IF i < 2 THEN NotDrifting
    ELSE
    LET prev == points[i - 1]
        curr == points[i]
        currentPoint == points[Len(points)]
        secondsSinceDrop == serverTime - curr.timestamp
        tempAtDrop == curr.temperature
        tempRise == currentPoint.temperature - tempAtDrop
    IN  IF curr.setpoint < prev.setpoint
        THEN IF tempRise >= minTempRise
             THEN [isDrifting |-> TRUE, setpointDropTime |-> <<curr.timestamp>>,
                   tempAtDrop |-> <<tempAtDrop>>,
                   currentTemp |-> <<currentPoint.temperature>>,
                   tempRise |-> <<tempRise>>,
                   minutesSinceDrop |-> <<RoundDiv(secondsSinceDrop, 60)>>]
             ELSE NotDrifting
        ELSE DriftScanNoMargin(points, i - 1, serverTime, minSecondsSinceDrop, minTempRise)

\* The loop gone wrong: no break, an earlier drop is tried when the most
\* recent one fails a test
RECURSIVE DriftScanNoBreak(_, _, _, _, _)
DriftScanNoBreak(points, i, serverTime, minSecondsSinceDrop, minTempRise) ==
    IF i < 2 THEN NotDrifting
    ELSE
    LET prev == points[i - 1]
        curr == points[i]
        currentPoint == points[Len(points)]
        secondsSinceDrop == serverTime - curr.timestamp
        tempAtDrop == curr.temperature
        tempRise == currentPoint.temperature - tempAtDrop
    IN  IF curr.setpoint < prev.setpoint
        THEN IF secondsSinceDrop >= minSecondsSinceDrop /\ tempRise >= minTempRise
             THEN [isDrifting |-> TRUE, setpointDropTime |-> <<curr.timestamp>>,
                   tempAtDrop |-> <<tempAtDrop>>,
                   currentTemp |-> <<currentPoint.temperature>>,
                   tempRise |-> <<tempRise>>,
                   minutesSinceDrop |-> <<RoundDiv(secondsSinceDrop, 60)>>]
             ELSE DriftScanNoBreak(points, i - 1, serverTime, minSecondsSinceDrop, minTempRise)
        ELSE DriftScanNoBreak(points, i - 1, serverTime, minSecondsSinceDrop, minTempRise)

\* The loop of detectDrift: i runs from points.length - 1 down to 1 (here
\* from Len(points) down to 2) and stops at the first setpoint drop.
RECURSIVE DriftScan(_, _, _, _, _)
DriftScan(points, i, serverTime, minSecondsSinceDrop, minTempRise) ==
    IF i < 2 THEN NotDrifting
    ELSE
    LET prev == points[i - 1]
        curr == points[i]
        currentPoint == points[Len(points)]
        secondsSinceDrop == serverTime - curr.timestamp
        tempAtDrop == curr.temperature
        tempRise == currentPoint.temperature - tempAtDrop
    IN  IF curr.setpoint < prev.setpoint
        THEN IF secondsSinceDrop >= minSecondsSinceDrop /\ tempRise >= minTempRise
             THEN [isDrifting |-> TRUE, setpointDropTime |-> <<curr.timestamp>>,
                   tempAtDrop |-> <<tempAtDrop>>,
                   currentTemp |-> <<currentPoint.temperature>>,
                   tempRise |-> <<tempRise>>,
                   minutesSinceDrop |-> <<RoundDiv(secondsSinceDrop, 60)>>]
             ELSE NotDrifting
        ELSE DriftScan(points, i - 1, serverTime, minSecondsSinceDrop, minTempRise)

\* detectDrift gone wrong: no length check, and the first point of the series
\* counts as a setpoint drop
DetectDriftFirstPointDrops(points, serverTime, minMinutesSinceDrop, minTempRise) ==
    IF points = <<>> THEN NotDrifting
    ELSE LET above == MeasurePoint(points[1].timestamp, points[1].temperature,
                                   points[1].setpoint + 1)
             d == DriftScan(<<above>> \o points, Len(points) + 1, serverTime,
                            minMinutesSinceDrop * 60, minTempRise)
         IN  d

\* NetatmoClient.detectDrift
DetectDrift(points, serverTime, minMinutesSinceDrop, minTempRise) ==
    IF Len(points) < 2 THEN NotDrifting
    ELSE DriftScan(points, Len(points), serverTime, minMinutesSinceDrop * 60, minTempRise)

---------------------------------------------------------------------------
\* Delayed callbacks (lib/qstash.ts)

ResetPayload(unit, originalSetpoint) ==
    [homeId |-> unit.homeId, roomId |-> unit.roomId, originalSetpoint |-> originalSetpoint]

Payloads == {ResetPayload(u, r[2]) : u \in Units, r \in Readings}

\* QStashClient.scheduleReset: publishJSON to the queue
ScheduleReset(c, payload) ==
    LET a == Await(c)
    IN  IF a.failed THEN a
        ELSE [a EXCEPT !.queue[payload] = @ + 1,
                       !.trace = Append(@, Call("schedule", Handle(payload.homeId, payload.roomId),
                                                "", payload.originalSetpoint, 0, 0))]

\* Signatures a request can carry: none, one QStash made with its current or
\* its next signing key over this body, or anything else.
Signatures == {"none", "current", "next", "bad"}

\* verifySignature gone wrong: any signature that is present passes
VerifySignatureAnyPresent(signature) == signature # "none"

\* QStashClient.verifySignature: Receiver.verify accepts a signature made
\* with either key and throws otherwise; the throw is turned into false.
VerifySignature(signature) == signature \in {"current", "next"}

---------------------------------------------------------------------------
\* Discovery (NetatmoClient.getAllThermostats)

ThermostatInfo(unit, reading, m, reachable, serverTime) ==
    [unit |-> unit, currentTemp |-> reading[1], setpoint |-> reading[2], mode |-> m,
     reachable |-> reachable, serverTime |-> serverTime]

\* The rooms of one home's status: rd[unit] is what the vendor reports for
\* the room (reachable, reading), st[h] the time_server of the response.
RECURSIVE HomeRooms(_, _, _, _, _)
HomeRooms(c, h, i, rd, st) ==
    IF i > Len(RoomsOf(h)) THEN <<>>
    ELSE LET u == Handle(h, RoomsOf(h)[i])
         IN  <<ThermostatInfo(u, rd[u].reading, c.mode[u], rd[u].reachable, st[h])>>
             \o HomeRooms(c, h, i + 1, rd, st)

\* A loop that gives up at the first home whose status read throws
RECURSIVE HomesLoopStopsAtFailure(_, _, _, _, _)
HomesLoopStopsAtFailure(c, i, failHomes, rd, st) ==
    IF i > Len(HomeOrder) THEN <<>>
    ELSE LET h == HomeOrder[i]
         IN  IF h \in failHomes THEN <<>>
             ELSE IF ~HasThermostat(h) THEN HomesLoopStopsAtFailure(c, i + 1, failHomes, rd, st)
             ELSE HomeRooms(c, h, 1, rd, st) \o HomesLoopStopsAtFailure(c, i + 1, failHomes, rd, st)

\* The loop over homesData.body.homes: a home without thermostat modules is
\* passed over, a home whose status read throws (failHomes) is logged and
\* passed over.
RECURSIVE HomesLoop(_, _, _, _, _)
HomesLoop(c, i, failHomes, rd, st) ==
    IF i > Len(HomeOrder) THEN <<>>
    ELSE LET h == HomeOrder[i]
             rest == HomesLoop(c, i + 1, failHomes, rd, st)
         IN  IF ~HasThermostat(h) \/ h \in failHomes THEN rest
             ELSE HomeRooms(c, h, 1, rd, st) \o rest

\* getAllThermostats: getHomesData, then the loop
GetAllThermostats(c, failHomes, rd, st) ==
    LET a == Await(c)
    IN  IF a.failed THEN [c |-> a, list |-> <<>>]
        ELSE [c |-> [a EXCEPT !.trace = Append(@, Call("homesdata", Handle("", ""), "", 0, 0, 0))],
              list |-> HomesLoop(a, 1, failHomes, rd, st)]

---------------------------------------------------------------------------
\* GET /check of src/index.ts

Result(t, action, drift) ==
    [unit |-> t.unit, currentTemp |-> t.currentTemp, setpoint |-> t.setpoint,
     action |-> action, drift |-> drift]

PushResult(c, r) == IF c.failed THEN c ELSE [c EXCEPT !.results = Append(@, r)]

\* The failsafe branch: mode === "max"
FailsafeBranch(c, t) ==
    LET c1 == SetRoomToHome(c, t.unit)
        c2 == LogResetCompleted(c1, t.unit, t.currentTemp, t.setpoint)
    IN  PushResult(c2, Result(t, "failsafe_reset", <<>>))

\* The drift branch gone wrong: reset_triggered is logged before the max
\* command is sent
DriftBranchLogsFirst(c, t, drift) ==
    LET c0 == [c EXCEPT !.count = @ + 1]
        c1 == LogOverageDetected(c0, t.unit, t.currentTemp, t.setpoint)
        c2 == LogResetTriggered(c1, t.unit, t.currentTemp, t.setpoint)
        c3 == SetRoomToMax(c2, t.unit, <<t.serverTime>>)
    IN  PushResult(c3, Result(t, "drift_reset_triggered",
                              <<[tempAtDrop |-> drift.tempAtDrop[1],
                                 tempRise |-> drift.tempRise[1],
                                 minutesSinceDrop |-> drift.minutesSinceDrop[1]]>>))

\* The branch taken when drift.isDrifting
DriftBranch(c, t, drift) ==
    LET c0 == [c EXCEPT !.count = @ + 1]
        c1 == LogOverageDetected(c0, t.unit, t.currentTemp, t.setpoint)
        c2 == SetRoomToMax(c1, t.unit, <<t.serverTime>>)
        c3 == LogResetTriggered(c2, t.unit, t.currentTemp, t.setpoint)
    IN  PushResult(c3, Result(t, "drift_reset_triggered",
                              <<[tempAtDrop |-> drift.tempAtDrop[1],
                                 tempRise |-> drift.tempRise[1],
                                 minutesSinceDrop |-> drift.minutesSinceDrop[1]]>>))

\* The loop body gone wrong: the failsafe branch lacks its continue and falls
\* through to the drift evaluation (a unit no measure body was drawn for
\* reads the history of a drop 600 s ago).
DriftUnitNoContinue(c, t, mb) ==
    IF ~t.reachable THEN PushResult(c, Result(t, "skipped_unreachable", <<>>))
    ELSE
    LET c0 == IF t.mode = "max" THEN FailsafeBranch(c, t) ELSE c
        c1 == GetRoomMeasure(c0, t.unit)
        body == IF t.unit \in DOMAIN mb THEN mb[t.unit]
                ELSE <<[beg_time |-> t.serverTime - 1200, step_time |-> 600,
                        value |-> <<(<<205, 210>>), (<<205, 190>>), (<<220, 190>>)>>]>>
        drift == DetectDrift(ParseMeasureData(body), t.serverTime,
                             MIN_MINUTES_SINCE_DROP, MIN_TEMP_RISE)
    IN  IF c1.failed THEN c1
        ELSE IF drift.isDrifting THEN DriftBranch(c1, t, drift)
        ELSE PushResult(c1, Result(t, "none", <<>>))

\* A loop body that logs an overage for a unit that is not drifting
DriftUnitLogsCalm(c, t, mb) ==
    IF ~t.reachable THEN PushResult(c, Result(t, "skipped_unreachable", <<>>))
    ELSE IF t.mode = "max" THEN FailsafeBranch(c, t)
    ELSE
    LET c1 == GetRoomMeasure(c, t.unit)
        points == ParseMeasureData(mb[t.unit])
        drift == DetectDrift(points, t.serverTime, MIN_MINUTES_SINCE_DROP, MIN_TEMP_RISE)
    IN  IF c1.failed THEN c1
        ELSE IF drift.isDrifting THEN DriftBranch(c1, t, drift)
        ELSE PushResult(LogOverageDetected(c1, t.unit, t.currentTemp, t.setpoint),
                        Result(t, "none", <<>>))

\* One pass of the loop body for thermostat t; mb[t.unit] is the body of the
\* response of its getroommeasure read.
DriftUnit(c, t, mb) ==
    IF ~t.reachable THEN PushResult(c, Result(t, "skipped_unreachable", <<>>))
    ELSE IF t.mode = "max" THEN FailsafeBranch(c, t)
    ELSE
    LET c1 == GetRoomMeasure(c, t.unit)
        points == ParseMeasureData(mb[t.unit])
        drift == DetectDrift(points, t.serverTime, MIN_MINUTES_SINCE_DROP, MIN_TEMP_RISE)
    IN  IF c1.failed THEN c1
        ELSE IF drift.isDrifting THEN DriftBranch(c1, t, drift)
        ELSE PushResult(c1, Result(t, "none", <<>>))

\* for (const thermostat of thermostats): a throw leaves the loop
RECURSIVE DriftLoop(_, _, _, _)
DriftLoop(c, list, i, mb) ==
    IF i > Len(list) \/ c.failed THEN c
    ELSE DriftLoop(DriftUnit(c, list[i], mb), list, i + 1, mb)

\* Authorization header of a request, against API_SECRET: the index.ts
\* check and requireApiSecret of lib/middleware.ts decide alike.  0: go on.
AuthHeaders == {"none", "good", "bad"}

\* The gate gone wrong: with the secret provisioned a request without an
\* Authorization header is let through
RequireApiSecretHeaderOptional(secretSet, auth) ==
    IF ~secretSet THEN 500
    ELSE IF auth \in {"good", "none"} THEN 0
    ELSE 401

RequireApiSecret(secretSet, auth) ==
    IF ~secretSet THEN 500
    ELSE IF auth = "good" THEN 0
    ELSE 401

Response(code, st, checked, count) ==
    [code |-> code, status |-> st, checked |-> checked, count |-> count]

\* The handler's body from discovery on, run with its inputs; the catch
\* turns a throw into the 500 response.  c.count is driftCount.
RunCheckDrift(failAt, adv, failHomes, rd, st, mb) ==
    LET d == GetAllThermostats(NewCtx(failAt, adv), failHomes, rd, st)
        c == DriftLoop(d.c, d.list, 1, mb)
        n == c.count
    IN  [c |-> c, list |-> d.list,
         resp |-> IF c.failed THEN Response(500, "error", 0, 0)
                  ELSE IF Len(d.list) = 0 THEN Response(200, "ok", 0, 0)
                  ELSE Response(200, IF n > 0 THEN "drifts_detected" ELSE "ok",
                                Len(d.list), n)]

---------------------------------------------------------------------------
\* GET /check of src/api/check.ts

\* An overage branch that schedules the callback for another unit's handle
OverageBranchOtherHandle(c, t) ==
    LET c0 == [c EXCEPT !.count = @ + 1]
        c1 == LogOverageDetected(c0, t.unit, t.currentTemp, t.setpoint)
        c2 == SetRoomToMax(c1, t.unit, <<>>)
        c3 == LogResetTriggered(c2, t.unit, t.currentTemp, t.setpoint)
        c4 == ScheduleReset(c3, ResetPayload(CHOOSE u \in Units : u # t.unit, t.setpoint))
    IN  PushResult(c4, Result(t, "reset_triggered", <<>>))

\* An overage branch that leaves overageCount alone
OverageBranchUncounted(c, t) ==
    LET c1 == LogOverageDetected(c, t.unit, t.currentTemp, t.setpoint)
        c2 == SetRoomToMax(c1, t.unit, <<>>)
        c3 == LogResetTriggered(c2, t.unit, t.currentTemp, t.setpoint)
        c4 == ScheduleReset(c3, ResetPayload(t.unit, t.setpoint))
    IN  PushResult(c4, Result(t, "reset_triggered", <<>>))

\* The branch taken when diff > OVERAGE_THRESHOLD
OverageBranch(c, t) ==
    LET c0 == [c EXCEPT !.count = @ + 1]
        c1 == LogOverageDetected(c0, t.unit, t.currentTemp, t.setpoint)
        c2 == SetRoomToMax(c1, t.unit, <<>>)
        c3 == LogResetTriggered(c2, t.unit, t.currentTemp, t.setpoint)
        c4 == ScheduleReset(c3, ResetPayload(t.unit, t.setpoint))
    IN  PushResult(c4, Result(t, "reset_triggered", <<>>))

\* The loop body gone wrong: the reachable flag is not looked at
ThresholdUnitAnyReachability(c, t) ==
    LET diff == t.currentTemp - t.setpoint
    IN  IF diff > OVERAGE_THRESHOLD THEN OverageBranch(c, t)
        ELSE PushResult(c, Result(t, "none", <<>>))

\* A loop body that takes a difference equal to the threshold for an overage
ThresholdUnitAtLeast(c, t) ==
    IF ~t.reachable THEN PushResult(c, Result(t, "skipped_unreachable", <<>>))
    ELSE LET diff == t.currentTemp - t.setpoint
         IN  IF diff >= OVERAGE_THRESHOLD THEN OverageBranch(c, t)
             ELSE PushResult(c, Result(t, "none", <<>>))

\* One pass of the loop body for thermostat t
ThresholdUnit(c, t) ==
    IF ~t.reachable THEN PushResult(c, Result(t, "skipped_unreachable", <<>>))
    ELSE LET diff == t.currentTemp - t.setpoint
         IN  IF diff > OVERAGE_THRESHOLD THEN OverageBranch(c, t)
             ELSE PushResult(c, Result(t, "none", <<>>))

RECURSIVE ThresholdLoop(_, _, _)
ThresholdLoop(c, list, i) ==
    IF i > Len(list) \/ c.failed THEN c
    ELSE ThresholdLoop(ThresholdUnit(c, list[i]), list, i + 1)

RunCheckThreshold(failAt, adv, failHomes, rd, st) ==
    LET d == GetAllThermostats(NewCtx(failAt, adv), failHomes, rd, st)
        c == ThresholdLoop(d.c, d.list, 1)
        n == c.count
    IN  [c |-> c, list |-> d.list,
         resp |-> IF c.failed THEN Response(500, "error", 0, 0)
                  ELSE IF Len(d.list) = 0 THEN Response(200, "ok", 0, 0)
                  ELSE Response(200, IF n > 0 THEN "overages_detected" ELSE "ok",
                                Len(d.list), n)]

---------------------------------------------------------------------------
\* POST /reset of api/reset.ts

\* Raw bodies: the JSON of a payload, JSON without homeId and roomId, or
\* text JSON.parse throws on.
Body(kind, payload) == [kind |-> kind, payload |-> payload]

NoPayload == [homeId |-> "", roomId |-> "", originalSetpoint |-> 0]

Bodies == {Body("json", p) : p \in Payloads} \cup {Body("json", NoPayload), Body("garbage", NoPayload)}

\* POST /reset gone wrong: the home command is sent only to a unit the vendor
\* still holds in max mode
RunResetOnlyFromMax(failAt, adv, signature, body, room) ==
    LET c0 == NewCtx(failAt, adv)
    IN  IF signature = "none" \/ ~VerifySignature(signature)
        THEN [c |-> c0, resp |-> Response(401, "Unauthorized", 0, 0)]
        ELSE IF body.kind = "garbage"
             THEN [c |-> c0, resp |-> Response(500, "Failed to reset room", 0, 0)]
        ELSE IF body.payload.homeId = "" \/ body.payload.roomId = ""
             THEN [c |-> c0, resp |-> Response(400, "Invalid payload", 0, 0)]
        ELSE
        LET unit == Handle(body.payload.homeId, body.payload.roomId)
            c1 == GetHomeStatus(c0, unit)
            currentTemp == IF room = <<>> THEN 0 ELSE room[1]
            c2 == IF c0.mode[unit] = "max" THEN SetRoomToHome(c1, unit) ELSE c1
            c3 == LogResetCompleted(c2, unit, currentTemp, body.payload.originalSetpoint)
        IN  [c |-> c3,
             resp |-> IF c3.failed THEN Response(500, "Failed to reset room", 0, 0)
                      ELSE Response(200, "reset_completed", 0, 0)]

\* room: <<>> when the status has no room of that id, else <<temperature>>
RunReset(failAt, adv, signature, body, room) ==
    LET c0 == NewCtx(failAt, adv)
    IN  IF signature = "none" THEN [c |-> c0, resp |-> Response(401, "Unauthorized", 0, 0)]
        ELSE IF ~VerifySignature(signature)
             THEN [c |-> c0, resp |-> Response(401, "Unauthorized", 0, 0)]
        ELSE IF body.kind = "garbage"
             THEN [c |-> c0, resp |-> Response(500, "Failed to reset room", 0, 0)]
        ELSE IF body.payload.homeId = "" \/ body.payload.roomId = ""
             THEN [c |-> c0, resp |-> Response(400, "Invalid payload", 0, 0)]
        ELSE
        LET unit == Handle(body.payload.homeId, body.payload.roomId)
            c1 == GetHomeStatus(c0, unit)
            currentTemp == IF room = <<>> THEN 0 ELSE room[1]
            c2 == SetRoomToHome(c1, unit)
            c3 == LogResetCompleted(c2, unit, currentTemp, body.payload.originalSetpoint)
        IN  [c |-> c3,
             resp |-> IF c3.failed THEN Response(500, "Failed to reset room", 0, 0)
                      ELSE Response(200, "reset_completed", 0, 0)]

---------------------------------------------------------------------------
\* Credentials (lib/netatmo.ts, getRefreshToken, getAccessToken and
\* refreshAccessToken).  Each awaited call is a step of its own, so that
\* invocations interleave.  Refresh tokens are numbered: BootstrapToken is
\* config.refreshToken, the vendor's n-th rotation gives BootstrapToken + n.
\* Access tokens are numbered in the order the vendor issues them.

NoToken == 0

BootstrapToken == 1

ACCESS_TOKEN_TTL == 10000

\* expires_in of a token response: the three hours the comment at
\* ACCESS_TOKEN_TTL expects, or one hour
ExpiresIn == {10800, 3600}

\* The invocations that may run side by side
Procs == {1, 2}

NoKeys == [access |-> NoToken, until |-> 0, by |-> 0, refresh |-> NoToken]

\* kv0, n0: the keys and the number of exchanges when the invocation began;
\* fetches, answer: the vendor API calls apiRequest has made and the last answer
NotRunning ==
    [pc |-> "idle", used |-> NoToken, access |-> NoToken, refresh |-> NoToken,
     hit |-> FALSE, raced |-> FALSE, why |-> "", kv0 |-> NoKeys, n0 |-> 0,
     fetches |-> 0, answer |-> ""]

InitTokens ==
    /\ kv = NoKeys
    /\ oauth = [refresh |-> BootstrapToken, expiry |-> <<>>]
    /\ inv = [p \in Procs |-> NotRunning]
    /\ epoch = 0
    /\ exchanges = <<>>

\* An awaited call that throws (fault: a network error or a non-2xx answer
\* not of the program's making; rejected: the vendor refuses the refresh
\* token)
Throws(p, why) == inv' = [inv EXCEPT ![p].pc = "threw", ![p].why = why]

\* getAccessToken is called (by apiRequest)
GetAccessTokenCall(p) ==
    /\ inv[p].pc = "idle"
    /\ inv' = [inv EXCEPT ![p] = [NotRunning EXCEPT !.pc = "getCached", !.kv0 = kv,
                                                     !.n0 = Len(exchanges)]]
    /\ UNCHANGED <<kv, oauth, epoch, exchanges, relayVars, appends>>

\* A lookup that never finds the cached token
GetCachedTokenAlwaysMisses(p, fault) ==
    /\ inv[p].pc = "getCached"
    /\ IF fault THEN Throws(p, "fault")
       ELSE inv' = [inv EXCEPT ![p].pc = "getRefresh"]
    /\ UNCHANGED <<kv, oauth, epoch, exchanges, relayVars, appends>>

\* redis.get(ACCESS_TOKEN_KEY): a key past its expiry is gone.  A cached token
\* is returned; without one the invocation goes on to refresh (raced: another
\* invocation has missed the cache as well and not yet written to it).
GetCachedToken(p, fault) ==
    /\ inv[p].pc = "getCached"
    /\ IF fault THEN Throws(p, "fault")
       ELSE LET cachedToken == IF kv.access # NoToken /\ epoch < kv.until
                               THEN kv.access ELSE NoToken
                others == {q \in Procs \ {p} :
                              inv[q].pc \in {"getRefresh", "exchange", "setAccess"}}
            IN  IF cachedToken # NoToken
                THEN inv' = [inv EXCEPT ![p].pc = "done", ![p].access = cachedToken,
                                        ![p].hit = TRUE]
                ELSE inv' = [q \in Procs |->
                                IF q = p THEN [inv[q] EXCEPT !.pc = "getRefresh",
                                                             !.raced = others # {}]
                                ELSE IF q \in others THEN [inv[q] EXCEPT !.raced = TRUE]
                                ELSE inv[q]]
    /\ UNCHANGED <<kv, oauth, epoch, exchanges, relayVars, appends>>

\* getRefreshToken: the token of Redis if there is one, else config.refreshToken
GetRefreshToken(p, fault) ==
    /\ inv[p].pc = "getRefresh"
    /\ IF fault THEN Throws(p, "fault")
       ELSE inv' = [inv EXCEPT ![p].pc = "exchange",
                               ![p].used = IF kv.refresh # NoToken THEN kv.refresh
                                           ELSE BootstrapToken]
    /\ UNCHANGED <<kv, oauth, epoch, exchanges, relayVars, appends>>

Exchange(used, ok, refresh) == [used |-> used, ok |-> ok, refresh |-> refresh]

\* refreshAccessToken gone wrong: a failed exchange deletes both keys
RefreshAccessTokenDropsKeys(p, fault, rotate, expires) ==
    /\ inv[p].pc = "exchange"
    /\ Len(exchanges) < MaxExchanges
    /\ IF fault \/ inv[p].used # oauth.refresh
       THEN /\ Throws(p, IF fault THEN "fault" ELSE "rejected")
            /\ exchanges' = Append(exchanges, Exchange(inv[p].used, FALSE, NoToken))
            /\ kv' = NoKeys
            /\ UNCHANGED oauth
       ELSE LET next == IF rotate = "new" THEN oauth.refresh + 1 ELSE oauth.refresh
                sent == IF rotate = "none" THEN NoToken ELSE next
            IN  /\ oauth' = [refresh |-> next,
                              expiry |-> Append(oauth.expiry, epoch + expires)]
                /\ inv' = [inv EXCEPT ![p].pc = "setAccess",
                                       ![p].access = Len(oauth.expiry) + 1,
                                       ![p].refresh = sent]
                /\ exchanges' = Append(exchanges, Exchange(inv[p].used, TRUE, sent))
                /\ UNCHANGED kv
    /\ UNCHANGED <<epoch, relayVars, appends>>

\* refreshAccessToken: POST /oauth2/token with the refresh token read.  The
\* vendor refuses a token it has rotated away; else it issues an access token
\* good for expires seconds and answers with a new refresh token (rotate =
\* "new": the old one is invalid from now on), the same one, or none.
RefreshAccessToken(p, fault, rotate, expires) ==
    /\ inv[p].pc = "exchange"
    /\ Len(exchanges) < MaxExchanges
    /\ IF fault \/ inv[p].used # oauth.refresh
       THEN /\ Throws(p, IF fault THEN "fault" ELSE "rejected")
            /\ exchanges' = Append(exchanges, Exchange(inv[p].used, FALSE, NoToken))
            /\ UNCHANGED oauth
       ELSE LET next == IF rotate = "new" THEN oauth.refresh + 1 ELSE oauth.refresh
                sent == IF rotate = "none" THEN NoToken ELSE next
            IN  /\ oauth' = [refresh |-> next,
                              expiry |-> Append(oauth.expiry, epoch + expires)]
                /\ inv' = [inv EXCEPT ![p].pc = "setAccess",
                                       ![p].access = Len(oauth.expiry) + 1,
                                       ![p].refresh = sent]
                /\ exchanges' = Append(exchanges, Exchange(inv[p].used, TRUE, sent))
    /\ UNCHANGED <<kv, epoch, relayVars, appends>>

\* redis.set(ACCESS_TOKEN_KEY, access_token, { ex: ACCESS_TOKEN_TTL })
SetAccessToken(p, fault) ==
    /\ inv[p].pc = "setAccess"
    /\ IF fault THEN Throws(p, "fault") /\ UNCHANGED kv
       ELSE /\ kv' = [kv EXCEPT !.access = inv[p].access,
                                 !.until = epoch + ACCESS_TOKEN_TTL, !.by = p]
            /\ inv' = [inv EXCEPT ![p].pc = IF inv[p].refresh # NoToken
                                            THEN "setRefresh" ELSE "done"]
    /\ UNCHANGED <<oauth, epoch, exchanges, relayVars, appends>>

\* if (tokenResponse.refresh_token) redis.set(REFRESH_TOKEN_KEY, ...)
SetRefreshToken(p, fault) ==
    /\ inv[p].pc = "setRefresh"
    /\ IF fault THEN Throws(p, "fault") /\ UNCHANGED kv
       ELSE /\ kv' = [kv EXCEPT !.refresh = inv[p].refresh]
            /\ inv' = [inv EXCEPT ![p].pc = "done"]
    /\ UNCHANGED <<oauth, epoch, exchanges, relayVars, appends>>

\* getAccessToken has returned a token or thrown: the invocation is over
GetAccessTokenReturns(p) ==
    /\ inv[p].pc \in {"done", "threw"}
    /\ inv' = [inv EXCEPT ![p] = NotRunning]
    /\ UNCHANGED <<kv, oauth, epoch, exchanges, relayVars, appends>>

\* What the vendor API answers a request: a 2xx, a 401-class rejection of the
\* access token, another non-2xx, or nothing (fetch rejects)
Answers == {"ok", "unauthorized", "error", "network"}

\* A request step that, on a rejection of the access token, deletes the
\* cached token and starts over
FetchRetriesUnauthorized(p, answer) ==
    /\ inv[p].pc = "done"
    /\ answer = "ok" => epoch < oauth.expiry[inv[p].access]
    /\ IF answer = "unauthorized" /\ inv[p].fetches = 0
       THEN /\ kv' = [kv EXCEPT !.access = NoToken]
            /\ inv' = [inv EXCEPT ![p].pc = "getCached", ![p].fetches = @ + 1,
                                    ![p].answer = answer]
       ELSE /\ kv' = kv
            /\ inv' = [inv EXCEPT ![p].pc = IF answer = "ok" THEN "returned" ELSE "threw",
                                    ![p].why = IF answer = "ok" THEN "" ELSE "api",
                                    ![p].fetches = @ + 1, ![p].answer = answer]
    /\ UNCHANGED <<oauth, epoch, exchanges, relayVars, appends>>

\* apiRequest after getAccessToken has returned the token: one fetch with
\* Authorization: Bearer <token>; a response that is not ok, or no response,
\* throws.  The vendor answers 2xx only to a token it has not expired.
Fetch(p, answer) ==
    /\ inv[p].pc = "done"
    /\ answer = "ok" => epoch < oauth.expiry[inv[p].access]
    /\ inv' = [inv EXCEPT ![p].pc = IF answer = "ok" THEN "returned" ELSE "threw",
                            ![p].why = IF answer = "ok" THEN "" ELSE "api",
                            ![p].fetches = @ + 1, ![p].answer = answer]
    /\ UNCHANGED <<kv, oauth, epoch, exchanges, relayVars, appends>>

\* apiRequest has returned the response's JSON or thrown (its own error or
\* getAccessToken's)
ApiRequestReturns(p) ==
    /\ inv[p].pc \in {"returned", "threw"}
    /\ inv' = [inv EXCEPT ![p] = NotRunning]
    /\ UNCHANGED <<kv, oauth, epoch, exchanges, relayVars, appends>>

\* Time passes between invocations.
Tick ==
    /\ \A p \in Procs : inv[p].pc = "idle"
    /\ epoch < MaxTicks * TickSeconds
    /\ epoch' = epoch + TickSeconds
    /\ UNCHANGED <<kv, oauth, inv, exchanges, relayVars, appends>>

\* getAccessToken called again and again, one invocation at a time
NextTokens ==
    \/ GetAccessTokenCall(1)
    \/ \E fault \in BOOLEAN : GetCachedToken(1, fault)
    \/ \E fault \in BOOLEAN : GetRefreshToken(1, fault)
    \/ \E fault \in BOOLEAN, rotate \in {"new", "same", "none"}, expires \in ExpiresIn :
           RefreshAccessToken(1, fault, rotate, expires)
    \/ \E fault \in BOOLEAN : SetAccessToken(1, fault)
    \/ \E fault \in BOOLEAN : SetRefreshToken(1, fault)
    \/ GetAccessTokenReturns(1)
    \/ Tick

\* apiRequest called again and again, one request at a time
NextVendor ==
    \/ GetAccessTokenCall(1)
    \/ \E fault \in BOOLEAN : GetCachedToken(1, fault)
    \/ \E fault \in BOOLEAN : GetRefreshToken(1, fault)
    \/ \E fault \in BOOLEAN, rotate \in {"new", "same", "none"}, expires \in ExpiresIn :
           RefreshAccessToken(1, fault, rotate, expires)
    \/ \E fault \in BOOLEAN : SetAccessToken(1, fault)
    \/ \E fault \in BOOLEAN : SetRefreshToken(1, fault)
    \/ \E answer \in Answers : Fetch(1, answer)
    \/ ApiRequestReturns(1)
    \/ Tick

\* Two invocations side by side, within one second
NextTokenRace ==
    \/ \E p \in Procs : GetAccessTokenCall(p)
    \/ \E p \in Procs, fault \in BOOLEAN : GetCachedToken(p, fault)
    \/ \E p \in Procs, fault \in BOOLEAN : GetRefreshToken(p, fault)
    \/ \E p \in Procs, fault \in BOOLEAN, rotate \in {"new", "same", "none"},
          expires \in ExpiresIn : RefreshAccessToken(p, fault, rotate, expires)
    \/ \E p \in Procs, fault \in BOOLEAN : SetAccessToken(p, fault)
    \/ \E p \in Procs, fault \in BOOLEAN : SetRefreshToken(p, fault)
    \/ \E p \in Procs : GetAccessTokenReturns(p)

---------------------------------------------------------------------------
\* Inputs of the handlers

ThermoHomes == {h \in Homes : HasThermostat(h)}

UnitsOf(hs) == {u \in Units : u.homeId \in hs}

\* What a status read reports for a room
RoomInputs == [reachable : BOOLEAN, reading : Readings]

Temps == {r[1] : r \in Readings}

\* Bodies of a getroommeasure response read at server time t (temperature,
\* setpoint pairs): no data; a setpoint drop 600 s ago with the temperature
\* up by 1.5; the same drop 300 s ago.
MeasureBodies(t) ==
    { <<>>,
      <<[beg_time |-> t - 1200, step_time |-> 600,
         value |-> <<(<<205, 210>>), (<<205, 190>>), (<<220, 190>>)>>]>>,
      <<[beg_time |-> t - 600, step_time |-> 300,
         value |-> <<(<<205, 210>>), (<<205, 190>>), (<<220, 190>>)>>]>> }

MeasureInputs(need, st) ==
    {f \in [need -> UNION {MeasureBodies(t) : t \in ServerTimes}] :
        \A u \in need : f[u] \in MeasureBodies(st[u.homeId])}

\* Arguments of detectDrift called by itself.  The series are those
\* parseMeasureData returns for one getroommeasure series of up to MaxPoints
\* values 5 or 7.5 minutes apart, the last one read at the server time or 10
\* minutes before it; the thresholds are the defaults of index.ts and values
\* around them.
SeriesValues == UNION {[1..n -> {205, 220} \X {170, 190, 210}] : n \in 0..MaxPoints}

MarginMinutes == {5, MIN_MINUTES_SINCE_DROP}

RiseThresholds == {0, MIN_TEMP_RISE, 15}

DetectCall(points, serverTime, minMinutesSinceDrop, minTempRise) ==
    [kind |-> "detect", points |-> points, serverTime |-> serverTime,
     minMinutesSinceDrop |-> minMinutesSinceDrop, minTempRise |-> minTempRise]

DetectInputs ==
    {DetectCall(ParseMeasureData(<<[beg_time |-> x[2] - x[1] - (Len(v) - 1) * step,
                                    step_time |-> step, value |-> v]>>), x[2], mm, mr) :
        v \in SeriesValues, step \in {300, 450}, x \in {0, 600} \X ServerTimes,
        mm \in MarginMinutes, mr \in RiseThresholds}

\* Arguments of parseMeasureData called by itself: response bodies of up to
\* MaxSeries series, each with up to MaxValues values, the series in any order
\* and overlapping in time
MaxSeries == 2

MaxValues == 2

SeriesInputs ==
    [beg_time : {0, 300, 600}, step_time : {300, 600},
     value : UNION {[1..n -> {<<205, 210>>, <<220, 190>>}] : n \in 0..MaxValues}]

ParseInputs == UNION {[1..n -> SeriesInputs] : n \in 0..MaxSeries}

ParseCall(body) == [kind |-> "parse", body |-> body]

---------------------------------------------------------------------------
\* State

Idle == "idle"

NoResponse == Response(0, "", 0, 0)

NoRequest == [kind |-> "none"]

\* failHomes: the homes whose status read throws during this request's
\* discovery; measured: the getroommeasure response bodies the vendor holds
\* for the units of this request
CheckRequest(secretSet, auth, failHomes, measured) ==
    [kind |-> "check", secretSet |-> secretSet, auth |-> auth, failHomes |-> failHomes,
     measured |-> measured]

ResetCall(signature, body, room) ==
    [kind |-> "reset", signature |-> signature, body |-> body, room |-> room]

ClientCall(unit, serverTime) == [kind |-> "client", unit |-> unit, serverTime |-> serverTime]

\* The rooms a callback body names as the vendor holds them when the callback
\* arrives (therm_setpoint_mode): none for a body without a handle
RoomsNamed(body) ==
    IF body.kind = "json" /\ body.payload \in Payloads
    THEN LET u == Handle(body.payload.homeId, body.payload.roomId)
         IN  <<[unit |-> u, mode |-> mode[u]]>>
    ELSE <<>>

Init ==
    /\ mode = [u \in Units |-> "schedule"]
    /\ endtime = [u \in Units |-> NoEnd]
    /\ queue = [p \in Payloads |-> 0]
    /\ events = {}
    /\ nowMs = 0
    /\ handler = Idle
    /\ req = NoRequest
    /\ resp = NoResponse
    /\ snap = <<>>
    /\ trace = <<>>
    /\ results = <<>>
    /\ InitTokens
    /\ InitAppends

\* Before a call of detectDrift by itself: its arguments are given
InitDetect ==
    /\ mode = [u \in Units |-> "schedule"]
    /\ endtime = [u \in Units |-> NoEnd]
    /\ queue = [p \in Payloads |-> 0]
    /\ events = {}
    /\ nowMs = 0
    /\ handler = Idle
    /\ req \in DetectInputs
    /\ resp = NoResponse
    /\ snap = <<>>
    /\ trace = <<>>
    /\ results = <<>>
    /\ InitTokens
    /\ InitAppends

\* The invocation has returned: what it did to the vendor, the queue, the
\* log and the clock stays; obs says whether the invocation is kept to look at.
Returns(c, h, rq, r, sn, obs) ==
    /\ \A p \in Payloads : c.queue[p] <= MaxQueue
    /\ mode' = c.mode
    /\ endtime' = c.endtime
    /\ queue' = c.queue
    /\ events' = c.events
    /\ nowMs' = c.now
    /\ UNCHANGED restVars
    /\ IF obs
       THEN /\ handler' = h
            /\ req' = rq
            /\ resp' = r
            /\ snap' = sn
            /\ trace' = c.trace
            /\ results' = c.results
       ELSE UNCHANGED <<handler, req, resp, snap, trace, results>>

\* A request turned away before the handler's body ran
Rejected(h, rq, code, obs) ==
    Returns(NewCtx(0, FALSE), h, rq, Response(code, "rejected", 0, 0), <<>>, obs)

---------------------------------------------------------------------------
\* Actions.  A handler's run is drawn from the one-element set of its result, so
\* that it is computed once for each choice of inputs.

\* GET /check of src/index.ts
CheckDrift(obs) ==
    /\ handler = Idle
    /\ \E secretSet \in BOOLEAN, auth \in AuthHeaders :
         LET gate == RequireApiSecret(secretSet, auth)
         IN  IF gate # 0 THEN Rejected("checkDrift", CheckRequest(secretSet, auth, {}, <<>>), gate, obs)
             ELSE \E failHomes \in SUBSET ThermoHomes, adv \in BOOLEAN :
                  \E rd \in [UnitsOf(ThermoHomes \ failHomes) -> RoomInputs],
                     st \in [ThermoHomes \ failHomes -> ServerTimes] :
                  \E mb \in MeasureInputs({u \in DOMAIN rd : rd[u].reachable /\ mode[u] # "max"}, st) :
                  \E failAt \in 0..RunCheckDrift(0, adv, failHomes, rd, st, mb).c.calls :
                      \E r \in {RunCheckDrift(failAt, adv, failHomes, rd, st, mb)} :
                          Returns(r.c, "checkDrift", CheckRequest(secretSet, auth, failHomes, mb),
                                  r.resp, r.list, obs)

\* GET /check of src/api/check.ts
CheckThreshold(obs) ==
    /\ handler = Idle
    /\ \E secretSet \in BOOLEAN, auth \in AuthHeaders :
         LET gate == RequireApiSecret(secretSet, auth)
         IN  IF gate # 0 THEN Rejected("checkThreshold", CheckRequest(secretSet, auth, {}, <<>>), gate, obs)
             ELSE \E failHomes \in SUBSET ThermoHomes, adv \in BOOLEAN :
                  \E rd \in [UnitsOf(ThermoHomes \ failHomes) -> RoomInputs],
                     st \in [ThermoHomes \ failHomes -> ServerTimes] :
                  \E failAt \in 0..RunCheckThreshold(0, adv, failHomes, rd, st).c.calls :
                      \E r \in {RunCheckThreshold(failAt, adv, failHomes, rd, st)} :
                          Returns(r.c, "checkThreshold", CheckRequest(secretSet, auth, failHomes, <<>>),
                                  r.resp, r.list, obs)

\* POST /reset, by anyone: any signature header, any body
ResetRequest(obs) ==
    /\ handler = Idle
    /\ \E signature \in Signatures, body \in Bodies, adv \in BOOLEAN,
          room \in {<<>>} \cup {<<t>> : t \in Temps} :
       \E failAt \in 0..RunReset(0, adv, signature, body, room).c.calls :
           \E r \in {RunReset(failAt, adv, signature, body, room)} :
               Returns(r.c, "reset", ResetCall(signature, body, room), r.resp,
                       RoomsNamed(body), obs)

\* QStash delivers an outstanding callback to POST /reset, signed.  The
\* message leaves the queue on a 2xx answer, unless the answer is lost on
\* its way (acked = FALSE): QStash then delivers it again.
DeliverCallback(obs) ==
    /\ handler = Idle
    /\ \E p \in Payloads, signature \in {"current", "next"}, adv \in BOOLEAN,
          room \in {<<>>} \cup {<<t>> : t \in Temps}, acked \in BOOLEAN :
       /\ queue[p] > 0
       /\ \E failAt \in 0..RunReset(0, adv, signature, Body("json", p), room).c.calls :
           \E r \in {RunReset(failAt, adv, signature, Body("json", p), room)} :
           \E q \in {IF r.resp.code = 200 /\ acked
                     THEN [r.c.queue EXCEPT ![p] = @ - 1] ELSE r.c.queue} :
               Returns([r.c EXCEPT !.queue = q], "reset",
                       ResetCall(signature, Body("json", p), room), r.resp,
                       RoomsNamed(Body("json", p)), obs)

\* setRoomToMax of lib/netatmo.ts called by itself, with or without a
\* server time
ClientMax(obs) ==
    /\ handler = Idle
    /\ \E u \in Units, serverTime \in {<<>>} \cup {<<t>> : t \in ServerTimes},
          adv \in BOOLEAN, failAt \in 0..1 :
           \E c \in {SetRoomToMax(NewCtx(failAt, adv), u, serverTime)} :
               Returns(c, "setRoomToMax", ClientCall(u, serverTime),
                       Response(IF c.failed THEN 500 ELSE 200, "", 0, 0), <<>>, obs)

\* setRoomToMax of the client kept in lib/redis.ts, called with a server time
LegacyMax(obs) ==
    /\ handler = Idle
    /\ \E u \in Units, t \in ServerTimes, failAt \in 0..1 :
           \E c \in {LegacySetRoomToMax(NewCtx(failAt, FALSE), u, t)} :
               Returns(c, "legacySetRoomToMax", ClientCall(u, <<t>>),
                       Response(IF c.failed THEN 500 ELSE 200, "", 0, 0), <<>>, obs)

\* The vendor ends a max setpoint at its end time and resumes the schedule.
VendorExpire(u) ==
    /\ handler = Idle
    /\ mode[u] = "max"
    /\ endtime[u] # NoEnd
    /\ mode' = [mode EXCEPT ![u] = "schedule"]
    /\ endtime' = [endtime EXCEPT ![u] = NoEnd]
    /\ UNCHANGED <<queue, events, nowMs, handler, req, resp, snap, trace, results, restVars>>

\* The resident puts a room on another mode at the thermostat or in the
\* vendor's app: the schedule, a manual setpoint or off.
UserSetsMode(u, m) ==
    /\ handler = Idle
    /\ mode[u] # m
    /\ mode' = [mode EXCEPT ![u] = m]
    /\ endtime' = [endtime EXCEPT ![u] = NoEnd]
    /\ UNCHANGED <<queue, events, nowMs, handler, req, resp, snap, trace, results, restVars>>

\* A callback is lost: QStash gives up on it or drops it.
LoseCallback(p) ==
    /\ handler = Idle
    /\ queue[p] > 0
    /\ queue' = [queue EXCEPT ![p] = @ - 1]
    /\ UNCHANGED <<mode, endtime, events, nowMs, handler, req, resp, snap, trace, results, restVars>>

\* The invocation that returned is over; nothing of it stays in the process.
Finish ==
    /\ handler # Idle
    /\ handler' = Idle
    /\ req' = NoRequest
    /\ resp' = NoResponse
    /\ snap' = <<>>
    /\ trace' = <<>>
    /\ results' = <<>>
    /\ UNCHANGED <<mode, endtime, queue, events, nowMs, restVars>>

\* The routes and the gateway clients over one account
Next ==
    \/ CheckDrift(TRUE)
    \/ CheckThreshold(TRUE)
    \/ ResetRequest(TRUE)
    \/ DeliverCallback(TRUE)
    \/ ClientMax(TRUE)
    \/ LegacyMax(TRUE)
    \/ \E u \in Units, m \in Modes \ {"max"} : UserSetsMode(u, m)
    \/ \E u \in Units : VendorExpire(u)
    \/ \E p \in Payloads : LoseCallback(p)
    \/ Finish

Spec == Init /\ [][Next]_vars

\* The deployment of src/index.ts: the drift check alone, no callbacks
NextDrift ==
    \/ CheckDrift(TRUE)
    \/ \E u \in Units : VendorExpire(u)
    \/ Finish

SpecDrift == Init /\ [][NextDrift]_vars

\* The deployment of api/check.ts and api/reset.ts with QStash between them
NextApi ==
    \/ CheckThreshold(TRUE)
    \/ ResetRequest(TRUE)
    \/ DeliverCallback(TRUE)
    \/ \E u \in Units, m \in Modes \ {"max"} : UserSetsMode(u, m)
    \/ \E u \in Units : VendorExpire(u)
    \/ \E p \in Payloads : LoseCallback(p)
    \/ Finish

SpecApi == Init /\ [][NextApi]_vars

\* Both check handlers over one account
NextChecks ==
    \/ CheckDrift(TRUE)
    \/ CheckThreshold(TRUE)
    \/ \E u \in Units : VendorExpire(u)
    \/ \E p \in Payloads : LoseCallback(p)
    \/ Finish

SpecChecks == Init /\ [][NextChecks]_vars

\* The three handlers that write to the event log, over one account
NextEntries ==
    \/ CheckDrift(TRUE)
    \/ CheckThreshold(TRUE)
    \/ ResetRequest(TRUE)
    \/ \E u \in Units : VendorExpire(u)
    \/ Finish

SpecEntries == Init /\ [][NextEntries]_vars

\* Arguments of the log's read operations: the time bounds, an offset, a
\* limit (<<>>: left out)
StartTimes == {<<>>, <<ClockStepMs>>}

EndTimes == {<<>>, <<0>>}

Offsets == {<<>>, <<1>>}

Limits == {<<>>, <<1>>}

LogHandlers == {Idle, "logEvent", "getRecentEvents", "getEventCounts", "getAllEvents"}

\* A read operation of the log has returned out (<<>> when it threw)
LogReadReturns(c, h, out) ==
    /\ events' = c.events
    /\ nowMs' = c.now
    /\ handler' = h
    /\ results' = out
    /\ UNCHANGED <<mode, endtime, queue, req, resp, snap, trace, restVars>>

\* EventLogger.logEvent called by itself, one call after the other on the
\* store that starts empty: the trace keeps every completed call.
LogEventCall ==
    /\ handler \in LogHandlers
    /\ Len(trace) < MaxLogCalls
    /\ \E type \in EventTypes, unit \in Units, rd \in Readings,
          adv \in BOOLEAN, failAt \in 0..1 :
       \E c \in {LogEvent([NewCtx(failAt, adv) EXCEPT !.trace = trace], type, unit,
                          rd[1], rd[2])} :
           /\ events' = c.events
           /\ nowMs' = c.now
           /\ trace' = c.trace
           /\ handler' = "logEvent"
           /\ UNCHANGED <<mode, endtime, queue, req, resp, snap, results, restVars>>

GetRecentEventsCall ==
    /\ handler \in LogHandlers
    /\ \E startTime \in StartTimes, endTime \in EndTimes, adv \in BOOLEAN, failAt \in 0..1 :
       \E r \in {GetRecentEvents(NewCtx(failAt, adv), startTime, endTime)} :
           LogReadReturns(r.c, "getRecentEvents", r.out)

GetEventCountsCall ==
    /\ handler \in LogHandlers
    /\ \E startTime \in StartTimes, endTime \in EndTimes, adv \in BOOLEAN, failAt \in 0..1 :
       \E r \in {GetEventCounts(NewCtx(failAt, adv), startTime, endTime)} :
           LogReadReturns(r.c, "getEventCounts", r.out)

GetAllEventsCall ==
    /\ handler \in LogHandlers
    /\ \E offset \in Offsets, limit \in Limits, failAt \in 0..1 :
       \E r \in {GetAllEvents(NewCtx(failAt, FALSE), offset, limit)} :
           LogReadReturns(r.c, "getAllEvents", r.out)

NextLog ==
    \/ LogEventCall
    \/ GetRecentEventsCall
    \/ GetEventCountsCall
    \/ GetAllEventsCall

SpecLog == Init /\ [][NextLog]_vars

\* NetatmoClient.detectDrift called by itself on the arguments given: results
\* holds what it returned.
DetectDriftCall ==
    /\ handler = Idle
    /\ req.kind = "detect"
    /\ handler' = "detectDrift"
    /\ results' = <<DetectDrift(req.points, req.serverTime, req.minMinutesSinceDrop,
                                req.minTempRise)>>
    /\ UNCHANGED <<mode, endtime, queue, events, nowMs, req, resp, snap, trace, restVars>>

NextDetect == DetectDriftCall

\* Two invocations of logEvent side by side (two handlers, or two instances
\* of one)
NextLogRace ==
    \/ \E p \in {1, 2}, type \in EventTypes, unit \in Units, adv \in BOOLEAN :
           LogEventBegins(p, type, unit, 215, 190, adv)
    \/ \E p \in {1, 2}, fault \in BOOLEAN : ZAdd(p, fault)
    \/ \E p \in {1, 2}, fault \in BOOLEAN : ZCard(p, fault)
    \/ \E p \in {1, 2}, fault \in BOOLEAN : ZRemRange(p, fault)

SpecLogRace == Init /\ [][NextLogRace]_vars

\* The state before a call of parseMeasureData on a response body
InitParse ==
    /\ mode = [u \in Units |-> "schedule"]
    /\ endtime = [u \in Units |-> NoEnd]
    /\ queue = [p \in Payloads |-> 0]
    /\ events = {}
    /\ nowMs = 0
    /\ handler = Idle
    /\ req \in {ParseCall(body) : body \in ParseInputs}
    /\ resp = NoResponse
    /\ snap = <<>>
    /\ trace = <<>>
    /\ results = <<>>
    /\ InitTokens
    /\ InitAppends

\* NetatmoClient.parseMeasureData called by itself: results holds the points
\* it returned.
ParseMeasureDataCall ==
    /\ handler = Idle
    /\ req.kind = "parse"
    /\ handler' = "parseMeasureData"
    /\ results' = ParseMeasureData(req.body)
    /\ UNCHANGED <<mode, endtime, queue, events, nowMs, req, resp, snap, trace, restVars>>

NextParse == ParseMeasureDataCall

SpecParse == InitParse /\ [][NextParse]_vars

SpecDetect == InitDetect /\ [][NextDetect]_vars

\* The credentials by themselves
SpecTokens == Init /\ [][NextTokens]_vars

SpecTokenRace == Init /\ [][NextTokenRace]_vars

\* The vendor API requests by themselves
SpecVendor == Init /\ [][NextVendor]_vars

\* The two gateway clients called by themselves
NextClient ==
    \/ ClientMax(TRUE)
    \/ LegacyMax(TRUE)
    \/ \E u \in Units : VendorExpire(u)
    \/ Finish

SpecClient == Init /\ [][NextClient]_vars

\* The check cycles and the callbacks with nothing kept of an invocation, the
\* vendor ending every max setpoint whose end time it holds.
NextFair ==
    \/ CheckDrift(FALSE)
    \/ CheckThreshold(FALSE)
    \/ DeliverCallback(FALSE)
    \/ \E u \in Units : VendorExpire(u)
    \/ \E p \in Payloads : LoseCallback(p)

FairSpec == Init /\ [][NextFair]_vars /\ \A u \in Units : WF_vars(VendorExpire(u))

---------------------------------------------------------------------------
\* Vocabulary of the properties: what the invocation that has just returned
\* did, read off its trace, its snapshot and its results.

CheckHandlers == {"checkDrift", "checkThreshold"}

\* The completed gateway calls that name unit u, in order
TraceOf(u) ==
    LET OfUnit(e) == e.unit = u
    IN  SelectSeq(trace, OfUnit)

Did(op, kind, u) ==
    \E i \in 1..Len(trace) : trace[i].op = op /\ trace[i].kind = kind /\ trace[i].unit = u

HowOften(op, kind, u) ==
    Cardinality({i \in 1..Len(trace) :
                    trace[i].op = op /\ trace[i].kind = kind /\ trace[i].unit = u})

\* The actions the results array records for unit u
ActionsOf(u) == {results[j].action : j \in {k \in 1..Len(results) : results[k].unit = u}}

\* Outstanding callbacks for the handle of u
Outstanding(u) ==
    Cardinality({x \in Payloads \X (1..(MaxQueue + 1)) :
                    /\ x[1].homeId = u.homeId
                    /\ x[1].roomId = u.roomId
                    /\ x[2] <= queue[x[1]]})

\* Position in the snapshot of the unit whose processing threw (0: none did):
\* every unit before it has pushed its result.
ThrewAt == IF resp.code = 500 /\ Len(snap) > 0 THEN Len(results) + 1 ELSE 0

---------------------------------------------------------------------------
\* Properties

\* C1: in every reachable state a unit that is in max mode has exactly one
\* outstanding delayed reset callback for its handle.
C1_MaxUnitHasOneCallback ==
    \A u \in Units : mode[u] = "max" => Outstanding(u) = 1

\* C2: whenever a unit is in max mode it eventually leaves max mode, the
\* callback lost or never scheduled and the invocation failed after the
\* command or not, given that the vendor's auto-expiry fires.
C2_MaxEventuallyLeft ==
    \A u \in Units : (mode[u] = "max") ~> (mode[u] # "max")

\* Two units are in max mode with no callback outstanding for either, one
\* forced by a drift cycle (end time from the server time) and one by a
\* threshold cycle (end time from the local clock) whose callback is gone.
C2_Witness ==
    \E u \in Units, v \in Units :
        /\ mode[u] = "max" /\ endtime[u] \in {t + MaxModeSeconds : t \in ServerTimes}
        /\ mode[v] = "max" /\ endtime[v] # NoEnd /\ endtime[v] # endtime[u]
        /\ Outstanding(u) = 0 /\ Outstanding(v) = 0

\* C3: every max command a gateway client sends carries an end time, and it
\* is the base time (the server time when supplied, else the local clock in
\* seconds) plus 60.
C3_MaxCommandExpiresAfter60 ==
    handler \in {"setRoomToMax", "legacySetRoomToMax"} =>
        \A i \in 1..Len(trace) :
            (trace[i].op = "cmd" /\ trace[i].kind = "max") =>
                /\ trace[i].v1 # NoEnd
                /\ trace[i].v1 = (IF req.serverTime = <<>> THEN nowMs \div 1000
                                  ELSE req.serverTime[1]) + 60

\* C4: a gateway error on one unit does not end the check cycle: of the
\* units discovered, at most the one that failed is left without a result.
C4_FailureIsolated ==
    handler \in CheckHandlers =>
        Cardinality({i \in 1..Len(snap) : ActionsOf(snap[i].unit) = {}}) <= 1

\* C5: every reachable unit a check cycle discovers in max mode (no gateway
\* call for that unit itself failing) gets a home command, one
\* reset_completed entry and the result failsafe_reset, and no measurement
\* read and no max command.
C5_MaxUnitIsReset ==
    handler \in CheckHandlers =>
        \A i \in 1..Len(snap) :
            (snap[i].reachable /\ snap[i].mode = "max" /\ i # ThrewAt) =>
                /\ Did("cmd", "home", snap[i].unit)
                /\ HowOften("log", "reset_completed", snap[i].unit) = 1
                /\ ActionsOf(snap[i].unit) = {"failsafe_reset"}
                /\ ~Did("measure", "", snap[i].unit)
                /\ ~Did("cmd", "max", snap[i].unit)

\* C6: for a unit recorded as drift_reset_triggered the cycle has appended
\* overage_detected, sent the max command with an end time, appended
\* reset_triggered and scheduled one callback with the unit's ResetPayload,
\* in this order, and the result carries the drift diagnostics.
C6_DriftSequence ==
    handler = "checkDrift" =>
        \A j \in 1..Len(results) :
            results[j].action = "drift_reset_triggered" =>
                LET u == results[j].unit
                IN  /\ results[j].drift # <<>>
                    /\ \E i \in 1..(Len(trace) - 3) :
                        /\ trace[i] = Call("log", u, "overage_detected",
                                           results[j].currentTemp, results[j].setpoint,
                                           trace[i].added)
                        /\ trace[i + 1].op = "cmd" /\ trace[i + 1].kind = "max"
                        /\ trace[i + 1].unit = u /\ trace[i + 1].v1 # NoEnd
                        /\ trace[i + 2] = Call("log", u, "reset_triggered",
                                               results[j].currentTemp, results[j].setpoint,
                                               trace[i + 2].added)
                        /\ trace[i + 3] = Call("schedule", u, "", results[j].setpoint, 0, 0)
                    /\ HowOften("schedule", "", u) = 1

\* C7: within one check cycle no unit receives both a home command and a
\* max command, and no unit is recorded both failsafe_reset and
\* drift_reset_triggered.
C7_FailsafeExcludesMax ==
    handler \in CheckHandlers =>
        \A u \in Units :
            /\ ~(Did("cmd", "home", u) /\ Did("cmd", "max", u))
            /\ ~({"failsafe_reset", "drift_reset_triggered"} \subseteq ActionsOf(u))

\* One cycle has reset a unit it found in max mode and forced another to max.
C7_Witness ==
    /\ handler = "checkDrift"
    /\ \E u \in Units, v \in Units :
        /\ Did("cmd", "home", u) /\ "failsafe_reset" \in ActionsOf(u)
        /\ Did("cmd", "max", v) /\ "drift_reset_triggered" \in ActionsOf(v)

\* C8: for a unit discovered unreachable the check cycle makes no gateway
\* call (no measurement read, no mode command, no log append, no callback),
\* whatever its mode, and records skipped_unreachable for it.
C8_UnreachableUntouched ==
    handler \in CheckHandlers =>
        \A i \in 1..Len(snap) :
            ~snap[i].reachable =>
                /\ TraceOf(snap[i].unit) = <<>>
                /\ ActionsOf(snap[i].unit) \subseteq {"skipped_unreachable"}
                /\ resp.code = 200 => ActionsOf(snap[i].unit) = {"skipped_unreachable"}

\* A completed threshold cycle found an unreachable unit in max mode, reading
\* above the threshold, and acted on another unit.
C8_Witness ==
    /\ handler = "checkThreshold"
    /\ resp.code = 200
    /\ \E i \in 1..Len(snap), u \in Units :
        /\ ~snap[i].reachable
        /\ snap[i].mode = "max"
        /\ snap[i].currentTemp - snap[i].setpoint > OVERAGE_THRESHOLD
        /\ Did("cmd", "max", u)

\* C9: a callback request whose signature is missing or verifies against
\* neither signing key is answered 401 and the handler makes no vendor call
\* and appends no log entry.
C9_BadSignatureRejected ==
    (handler = "reset" /\ req.signature \notin {"current", "next"}) =>
        resp.code = 401 /\ trace = <<>>

\* A well-formed payload for a unit in max mode arrived under a signature
\* that verifies against neither key.
C9_Witness ==
    /\ handler = "reset"
    /\ req.signature = "bad"
    /\ req.body.kind = "json"
    /\ req.body.payload \in Payloads
    /\ mode[Handle(req.body.payload.homeId, req.body.payload.roomId)] = "max"
    /\ resp.code = 401

\* C10: every reset invocation that answers 200 (so the first and the second
\* delivery of one payload alike) has added one reset_completed entry to the
\* log and leaves the unit on its schedule.
C10_EveryResetAddsEntry ==
    (handler = "reset" /\ resp.code = 200) =>
        LET u == Handle(req.body.payload.homeId, req.body.payload.roomId)
        IN  /\ mode[u] = "schedule"
            /\ \E i \in 1..Len(trace) :
                /\ trace[i].op = "log" /\ trace[i].kind = "reset_completed"
                /\ trace[i].unit = u /\ trace[i].added = 1

\* C11: an authenticated callback whose payload has homeId and roomId makes
\* the same gateway calls whatever mode the unit is in (max, schedule, manual
\* or off): the status re-read, then the home command for the payload's
\* handle, then the reset_completed entry with the temperature just read (0
\* when the status has no such room) and the payload's originalSetpoint.  It
\* stops short of a call only when the call before it threw, and then answers
\* 500; otherwise it answers 200.
C11_ResetUnconditional ==
    (/\ handler = "reset"
     /\ req.signature \in {"current", "next"}
     /\ req.body.kind = "json"
     /\ req.body.payload \in Payloads) =>
        LET u == Handle(req.body.payload.homeId, req.body.payload.roomId)
            currentTemp == IF req.room = <<>> THEN 0 ELSE req.room[1]
            steps == <<Call("status", u, "", 0, 0, 0),
                       Call("cmd", u, "home", NoEnd, 0, 0),
                       Call("log", u, "reset_completed", currentTemp,
                            req.body.payload.originalSetpoint, 0)>>
        IN  /\ Len(trace) <= 3
            /\ \A i \in 1..Len(trace) : [trace[i] EXCEPT !.added = 0] = steps[i]
            /\ resp.code = (IF Len(trace) = 3 THEN 200 ELSE 500)
            /\ Len(trace) >= 2 => mode[u] = "schedule"

\* An authenticated callback for a unit the resident had switched off has
\* been answered 200 after the home command and the log entry, while the
\* other unit is in max mode.
C11_Witness ==
    /\ handler = "reset"
    /\ req.signature = "current"
    /\ resp.code = 200
    /\ Len(snap) = 1 /\ snap[1].mode = "off"
    /\ Did("cmd", "home", snap[1].unit)
    /\ Did("log", "reset_completed", snap[1].unit)
    /\ req.room # <<>>
    /\ \E v \in Units : mode[v] = "max"

\* C12: an authenticated callback whose body is malformed (text JSON.parse
\* throws on, or JSON without homeId or roomId) is answered with a client
\* error (4xx) and the handler makes no vendor call and appends no log entry.
C12_MalformedIsClientError ==
    (/\ handler = "reset"
     /\ req.signature \in {"current", "next"}
     /\ \/ req.body.kind = "garbage"
        \/ req.body.payload.homeId = ""
        \/ req.body.payload.roomId = "") =>
        /\ resp.code \in 400..499
        /\ trace = <<>>

\* The last n completed logEvent calls of the trace, as (type, handle,
\* temperature, setpoint)
LastLogged(n) ==
    {[type |-> trace[i].kind, homeId |-> trace[i].unit.homeId,
      roomId |-> trace[i].unit.roomId, currentTemp |-> trace[i].v1,
      setpoint |-> trace[i].v2] : i \in {j \in 1..Len(trace) : j > Len(trace) - n}}

\* The entry the last completed logEvent call of the trace inserted
LastEntry ==
    IF trace = <<>> THEN {}
    ELSE LET t == trace[Len(trace)]
         IN  {OverageEvent(t.kind, t.unit, t.v1, t.v2, nowMs)}

\* The entries of the store, without their timestamps
Stored ==
    {[type |-> e.type, homeId |-> e.homeId, roomId |-> e.roomId,
      currentTemp |-> e.currentTemp, setpoint |-> e.setpoint] : e \in events}

\* C13: after N + k completed logEvent calls in sequence on a store that
\* started empty (N the retention bound, k >= 0) the store holds exactly N
\* entries, those of the N most recent calls; after any completed call it
\* holds at most N.
C13_KeepsMostRecent ==
    handler = "logEvent" =>
        /\ Cardinality(events) <= MAX_EVENTS_TO_KEEP
        /\ Len(trace) >= MAX_EVENTS_TO_KEEP =>
            /\ Cardinality(events) = MAX_EVENTS_TO_KEEP
            /\ Stored = LastLogged(MAX_EVENTS_TO_KEEP)

\* The index of the most recent setpoint drop of a series (0: no drop)
LastDrop(points) ==
    LET drops == {i \in 2..Len(points) : points[i].setpoint < points[i - 1].setpoint}
    IN  IF drops = {} THEN 0 ELSE CHOOSE i \in drops : \A j \in drops : j <= i

\* C14: for a measurement series of fewer than 2 points detectDrift reports
\* isDrifting = false, whatever the server time and the thresholds.
C14_ShortSeriesNotDrifting ==
    (handler = "detectDrift" /\ Len(req.points) < 2) => ~results[1].isDrifting

\* detectDrift has answered for a series of one point, read 10 minutes before
\* the server time, with the rise threshold 0 and the margin 10 minutes.
C14_Witness ==
    /\ handler = "detectDrift"
    /\ Len(req.points) = 1
    /\ req.serverTime - req.points[1].timestamp = 600
    /\ req.minMinutesSinceDrop = MIN_MINUTES_SINCE_DROP
    /\ req.minTempRise = 0
    /\ req.points[1].setpoint = 170
    /\ ~results[1].isDrifting

\* Whether the setpoint drop at index i of the series of the call passes the
\* elapsed-time test, and the temperature-rise test
ElapsedPasses(i) ==
    req.serverTime - req.points[i].timestamp >= req.minMinutesSinceDrop * 60

RisePasses(i) ==
    req.points[Len(req.points)].temperature - req.points[i].temperature >= req.minTempRise

Drops == {i \in 2..Len(req.points) : req.points[i].setpoint < req.points[i - 1].setpoint}

\* C15 as stated: for a time-ordered series containing a setpoint drop that
\* lies minMinutesSinceDrop minutes or more before the server time and since
\* which the temperature has risen by minTempRise or more, detectDrift
\* reports isDrifting = true with tempRise = currentTemp - tempAtDrop.
C15_AnyPassingDropDrifts ==
    (handler = "detectDrift" /\ \E i \in Drops : ElapsedPasses(i) /\ RisePasses(i)) =>
        /\ results[1].isDrifting
        /\ results[1].tempRise = <<results[1].currentTemp[1] - results[1].tempAtDrop[1]>>

\* C15, amended: when the most recent setpoint drop of a time-ordered series
\* lies minMinutesSinceDrop minutes or more before the server time and the
\* last point's temperature is minTempRise or more above the temperature at
\* that drop, detectDrift reports isDrifting = true with currentTemp the last
\* point's temperature, tempAtDrop the temperature at that drop and tempRise
\* exactly currentTemp - tempAtDrop.
C15_LastPassingDropDrifts ==
    (/\ handler = "detectDrift"
     /\ LastDrop(req.points) > 0
     /\ ElapsedPasses(LastDrop(req.points))
     /\ RisePasses(LastDrop(req.points))) =>
        LET drop == req.points[LastDrop(req.points)]
            last == req.points[Len(req.points)]
        IN  /\ results[1].isDrifting
            /\ results[1].currentTemp = <<last.temperature>>
            /\ results[1].tempAtDrop = <<drop.temperature>>
            /\ results[1].tempRise = <<last.temperature - drop.temperature>>

\* The setpoint dropped from 21 to 19 at 900 s before the server time, the
\* temperature 20.5 then and 22.0 now: drifting, tempRise 1.5, 15 minutes.
C15_Witness ==
    /\ handler = "detectDrift"
    /\ req.minMinutesSinceDrop = MIN_MINUTES_SINCE_DROP
    /\ req.minTempRise = MIN_TEMP_RISE
    /\ LastDrop(req.points) > 0
    /\ LET drop == req.points[LastDrop(req.points)]
           before == req.points[LastDrop(req.points) - 1]
       IN  /\ req.serverTime - drop.timestamp = 900
           /\ before.setpoint = 210 /\ drop.setpoint = 190 /\ drop.temperature = 205
    /\ req.points[Len(req.points)].temperature = 220
    /\ results[1].isDrifting
    /\ results[1].tempRise = <<15>>
    /\ results[1].minutesSinceDrop = <<15>>

\* C16: when the most recent setpoint drop of the series happened less than
\* minMinutesSinceDrop minutes before the server time, detectDrift reports
\* isDrifting = false, however large the temperature rise.
C16_RecentDropNotDrifting ==
    (/\ handler = "detectDrift"
     /\ LastDrop(req.points) > 0
     /\ ~ElapsedPasses(LastDrop(req.points))) => ~results[1].isDrifting

\* The only drop is 5 minutes old under the margin of 10 minutes, the
\* temperature up by 1.5 since, three times the rise asked for.
C16_Witness ==
    /\ handler = "detectDrift"
    /\ req.minMinutesSinceDrop = MIN_MINUTES_SINCE_DROP
    /\ req.minTempRise = MIN_TEMP_RISE
    /\ Cardinality(Drops) = 1
    /\ req.serverTime - req.points[LastDrop(req.points)].timestamp = 300
    /\ RisePasses(LastDrop(req.points))
    /\ req.points[Len(req.points)].temperature
            - req.points[LastDrop(req.points)].temperature = 15
    /\ ~results[1].isDrifting

\* C17: the result of detectDrift depends on the most recent setpoint drop
\* alone: without a drop, or when the most recent drop fails the elapsed-time
\* test or the temperature-rise test, it is not-drifting, whatever an earlier
\* drop of the series would give; a reported setpointDropTime is the
\* timestamp of the most recent drop.
C17_OnlyMostRecentDrop ==
    handler = "detectDrift" =>
        LET i == LastDrop(req.points)
        IN  /\ i = 0 => ~results[1].isDrifting
            /\ (i > 0 /\ ~(ElapsedPasses(i) /\ RisePasses(i))) => ~results[1].isDrifting
            /\ results[1].isDrifting =>
                   results[1].setpointDropTime = <<req.points[i].timestamp>>

\* An earlier drop of the series passes both tests and the most recent drop
\* fails one: not drifting.
C17_Witness ==
    /\ handler = "detectDrift"
    /\ \E j \in Drops : j < LastDrop(req.points) /\ ElapsedPasses(j) /\ RisePasses(j)
    /\ ~(ElapsedPasses(LastDrop(req.points)) /\ RisePasses(LastDrop(req.points)))
    /\ req.minTempRise > 0
    /\ ~results[1].isDrifting

\* The refresh token the k-th exchange has to use: the one returned by the
\* most recent successful exchange before it that returned one, the
\* bootstrap token when there is none
TokenDue(k) ==
    LET gave == {j \in 1..(k - 1) : exchanges[j].ok /\ exchanges[j].refresh # NoToken}
    IN  IF gave = {} THEN BootstrapToken
        ELSE exchanges[CHOOSE j \in gave : \A i \in gave : i <= j].refresh

\* C18: in a sequence of access-token refreshes that do not overlap, every
\* OAuth exchange uses the refresh token returned by the most recent earlier
\* successful exchange that returned one, and the bootstrap token only
\* while no exchange has returned one.
C18_UsesLatestRefreshToken ==
    \A k \in 1..Len(exchanges) : exchanges[k].used = TokenDue(k)

\* C19: getAccessToken never returns a cached access token that has expired
\* at the vendor: the cache key outlives no token, its TTL being less than
\* the expires_in the vendor returned with the token.
C19_CachedTokenUnexpired ==
    \A p \in Procs :
        (inv[p].pc = "done" /\ inv[p].hit) => epoch < oauth.expiry[inv[p].access]

\* The invocations that are over, with a token or with an error
Over == {p \in Procs : inv[p].pc \in {"done", "threw"}}

\* C20: when two invocations have missed the access-token cache side by side
\* and both refresh, no call failing for a reason outside the program, both
\* obtain an access token and write it to the cache, the cache holds the
\* token of the last writer, and each returned token is valid at the vendor
\* until its own expiry.
C20_BothRefreshesSucceed ==
    (/\ Over = Procs
     /\ \A p \in Procs : inv[p].raced /\ inv[p].why # "fault") =>
        /\ \A p \in Procs : inv[p].pc = "done" /\ inv[p].access # NoToken
        /\ kv.by \in Procs /\ kv.access = inv[kv.by].access
        /\ \A p \in Procs : inv[p].access \in 1..Len(oauth.expiry)

\* The invocation has thrown in the OAuth exchange: it had read a refresh
\* token and was given no access token.
ThrewInExchange(p) ==
    inv[p].pc = "threw" /\ inv[p].used # NoToken /\ inv[p].access = NoToken

\* C21: when the OAuth exchange fails (no answer, or a non-2xx answer),
\* getAccessToken throws after that one exchange of the invocation, and the
\* access-token key and the refresh-token key are as they were when the
\* invocation began.
C21_FailedExchangeLeavesKeys ==
    \A p \in Procs :
        ThrewInExchange(p) =>
            /\ Len(exchanges) = inv[p].n0 + 1
            /\ exchanges[Len(exchanges)] = Exchange(inv[p].used, FALSE, NoToken)
            /\ kv = inv[p].kv0

\* The exchange has failed with an access token (expired) and a rotated
\* refresh token in the store.
C21_Witness ==
    /\ ThrewInExchange(1)
    /\ kv.access # NoToken
    /\ kv.refresh # NoToken /\ kv.refresh # BootstrapToken
    /\ inv[1].used = kv.refresh

\* C22: GET /check answers 500 whenever API_SECRET is not provisioned,
\* whatever the Authorization header, and 401 whenever it is provisioned and
\* the header is absent or is not 'Bearer <secret>'; in both cases the
\* handler discovers nothing, sends no mode command, appends nothing to the
\* log and schedules no callback.
C22_GateRejects ==
    (handler \in CheckHandlers /\ (~req.secretSet \/ req.auth # "good")) =>
        /\ resp.code = (IF ~req.secretSet THEN 500 ELSE 401)
        /\ trace = <<>>
        /\ snap = <<>>
        /\ results = <<>>

\* The threshold check was turned away for its missing header while a unit
\* was in max mode with its callback outstanding.
C22_Witness ==
    /\ handler = "checkThreshold"
    /\ req.secretSet /\ req.auth = "none"
    /\ resp.code = 401
    /\ \E u \in Units : mode[u] = "max" /\ Outstanding(u) = 1

\* C23: when getHomesData succeeded and the status reads of some homes threw,
\* the discovered list holds exactly one snapshot for every room of every
\* other thermostat-equipped home and none for the homes that failed, and a
\* server error of the request comes from the processing of a discovered
\* unit, never from the discovery.
C23_FailedHomeSkippedAlone ==
    (handler \in CheckHandlers /\ trace # <<>> /\ req.failHomes # {}) =>
        /\ \A u \in UnitsOf(ThermoHomes \ req.failHomes) :
               Cardinality({i \in 1..Len(snap) : snap[i].unit = u}) = 1
        /\ \A i \in 1..Len(snap) : snap[i].unit \in UnitsOf(ThermoHomes \ req.failHomes)
        /\ resp.code = 500 => ThrewAt \in 1..Len(snap)

C23_Witness ==
    /\ handler = "checkDrift"
    /\ req.failHomes = {"h1"}
    /\ resp.code = 200
    /\ Len(snap) = 1
    /\ snap[1].unit = Handle("h2", "r2")
    /\ Len(results) = 1
\* C24: every step of the event log's operations leaves each entry of the
\* store as it was or removes it, and adds at most the entry being logged; a
\* step that removes entries is a logEvent call whose insert took the count
\* over MAX_EVENTS_TO_KEEP, and no entry it removes has a higher timestamp
\* than an entry it keeps; getRecentEvents, getEventCounts and getAllEvents
\* leave the store unchanged.
C24_AppendAndTrimOnly ==
    [][/\ handler' \in {"getRecentEvents", "getEventCounts", "getAllEvents"} => events' = events
       /\ Cardinality(events' \ events) <= 1
       /\ events' # events =>
             /\ handler' = "logEvent"
             /\ Len(trace') = Len(trace) + 1
       /\ LET inserted == IF Len(trace') = Len(trace) + 1 THEN LastEntry' ELSE {}
              trimmed == (events \cup inserted) \ events'
          IN  trimmed # {} =>
                /\ Cardinality(events \cup inserted) > MAX_EVENTS_TO_KEEP
                /\ Cardinality(events') = MAX_EVENTS_TO_KEEP
                /\ \A gone \in trimmed, kept \in events' :
                       gone.timestamp <= kept.timestamp]_vars

\* a trim has removed an entry and a read operation has returned the one kept
C24_Witness ==
    /\ handler = "getAllEvents"
    /\ Len(trace) = 2
    /\ trace[1].added = 1
    /\ trace[2].added = 1
    /\ Cardinality(events) = MAX_EVENTS_TO_KEEP
    /\ Len(results) = 1
    /\ results[1] \in events
\* The invocation began with the access-token key set and its TTL running
BeganCached(p) ==
    inv[p].pc # "idle" /\ inv[p].kv0.access # NoToken /\ epoch < inv[p].kv0.until

\* C25: an invocation of getAccessToken that begins while the access-token
\* key holds a token whose TTL has not run out makes no OAuth exchange and
\* writes neither key, and what it returns is exactly that token; it ends
\* without a token only when the read of the key itself throws.
C25_CacheHitOnlyReads ==
    \A p \in Procs :
        BeganCached(p) =>
            /\ inv[p].pc \in {"getCached", "done", "threw"}
            /\ Len(exchanges) = inv[p].n0
            /\ kv = inv[p].kv0
            /\ inv[p].pc = "done" => inv[p].hit /\ inv[p].access = inv[p].kv0.access
            /\ inv[p].pc = "threw" => inv[p].why = "fault" /\ inv[p].used = NoToken

C25_Witness ==
    /\ BeganCached(1)
    /\ inv[1].pc = "done"
    /\ inv[1].access = kv.access
    /\ kv.refresh # NoToken
    /\ epoch >= TickSeconds
\* The gateway calls made for unit u, as (operation, kind) pairs
StepsOf(u) == [k \in 1..Len(TraceOf(u)) |-> <<TraceOf(u)[k].op, TraceOf(u)[k].kind>>]

\* What the threshold check does for an overage
OverageSteps ==
    <<(<<"log", "overage_detected">>), (<<"cmd", "max">>),
      (<<"log", "reset_triggered">>), (<<"schedule", "">>)>>

\* C26: in the threshold check a reachable unit whose currentTemp - setpoint
\* is at most 1.0 degree gets action none and no gateway call; one whose
\* difference is above 1.0 degree gets the overage_detected entry, the max
\* command, the reset_triggered entry and the callback, and action
\* reset_triggered (the calls stop where one of them throws, and the unit then
\* has no result).
C26_OverageIffAboveThreshold ==
    handler = "checkThreshold" =>
        \A i \in 1..Len(snap) :
            snap[i].reachable =>
                LET u == snap[i].unit
                    diff == snap[i].currentTemp - snap[i].setpoint
                IN  IF diff > OVERAGE_THRESHOLD
                    THEN IF i <= Len(results)
                         THEN results[i].action = "reset_triggered" /\ StepsOf(u) = OverageSteps
                         ELSE /\ Len(StepsOf(u)) < Len(OverageSteps)
                              /\ StepsOf(u) = SubSeq(OverageSteps, 1, Len(StepsOf(u)))
                    ELSE /\ StepsOf(u) = <<>>
                         /\ i <= Len(results) => results[i].action = "none"

\* one unit exactly 1.0 degree above its setpoint, the other 2.5 degrees
C26_Witness ==
    /\ handler = "checkThreshold"
    /\ resp.code = 200
    /\ Len(snap) = 2
    /\ Len(results) = 2
    /\ snap[1].reachable /\ snap[1].currentTemp - snap[1].setpoint = OVERAGE_THRESHOLD
    /\ results[1].action = "none"
    /\ snap[2].reachable /\ snap[2].currentTemp - snap[2].setpoint > OVERAGE_THRESHOLD
    /\ results[2].action = "reset_triggered"
\* C27: every authenticated callback whose payload has homeId and roomId
\* sends the home command for that handle, whether the status re-read
\* returned the room, returned no such room, or threw: the handler ends
\* without a completed home command only when the command itself threw.
C27_HomeCommandWhateverStatus ==
    (/\ handler = "reset"
     /\ req.signature \in {"current", "next"}
     /\ req.body.kind = "json"
     /\ req.body.payload \in Payloads) =>
        LET u == Handle(req.body.payload.homeId, req.body.payload.roomId)
        IN  \/ Did("cmd", "home", u)
            \/ resp.code = 500 /\ Len(trace) = 1 /\ trace[1].op = "status"
\* The request's vendor API call was answered with a non-2xx response
VendorRejected(p) == inv[p].pc = "threw" /\ inv[p].answer \in {"unauthorized", "error"}

\* C28: a gateway request makes at most one vendor API call and at most one
\* OAuth exchange; when the vendor API answers 401 or another non-2xx the
\* request throws after that one call, and the access-token key still holds
\* the token the request was sent with, its TTL running: it was neither
\* deleted nor replaced.
C28_RejectionNotRetried ==
    \A p \in Procs :
        /\ inv[p].pc # "idle" =>
              /\ inv[p].fetches <= 1
              /\ Len(exchanges) <= inv[p].n0 + 1
        /\ VendorRejected(p) =>
              /\ inv[p].fetches = 1
              /\ Len(exchanges) = inv[p].n0 + (IF inv[p].hit THEN 0 ELSE 1)
              /\ kv.access = inv[p].access
              /\ epoch < kv.until
              /\ inv[p].hit => kv = inv[p].kv0

\* the cached token, expired at the vendor before the key's TTL ran out, was
\* rejected
C28_Witness ==
    /\ VendorRejected(1)
    /\ inv[1].answer = "unauthorized"
    /\ inv[1].hit
    /\ epoch >= oauth.expiry[inv[1].access]
    /\ kv.access = inv[1].access
\* The number of results that record the given action
CountAction(action) == Cardinality({i \in 1..Len(results) : results[i].action = action})

\* The action a handler records for a unit it triggers, and the status it
\* reports when it has triggered one
Triggered == IF handler = "checkDrift" THEN "drift_reset_triggered" ELSE "reset_triggered"

Detected == IF handler = "checkDrift" THEN "drifts_detected" ELSE "overages_detected"

\* C29: in every 200 response of a check cycle that discovered at least one
\* unit, results has one entry for each discovered unit, in the order of the
\* discovery, checked is the number of discovered units, the count (drifts,
\* overages) is the number of results with the handler's triggered action,
\* and status is the detected value exactly when the count is above 0, else
\* ok.
C29_SummaryMatchesResults ==
    (handler \in CheckHandlers /\ resp.code = 200 /\ Len(snap) > 0) =>
        /\ Len(results) = Len(snap)
        /\ \A i \in 1..Len(snap) : results[i].unit = snap[i].unit
        /\ resp.checked = Len(snap)
        /\ resp.count = CountAction(Triggered)
        /\ resp.status = (IF resp.count > 0 THEN Detected ELSE "ok")

\* a drift check of two units, the second of them drifting
C29_Witness ==
    /\ handler = "checkDrift"
    /\ resp.code = 200
    /\ Len(snap) = 2
    /\ resp.checked = 2
    /\ resp.count = 1
    /\ resp.status = "drifts_detected"
    /\ results[1].action # "drift_reset_triggered"
    /\ results[2].action = "drift_reset_triggered"
\* The detector's verdict on the history read for the i-th discovered unit
\* is not-drifting
ReportedCalm(i) ==
    /\ Did("measure", "", snap[i].unit)
    /\ ~DetectDrift(ParseMeasureData(req.measured[snap[i].unit]), snap[i].serverTime,
                    MIN_MINUTES_SINCE_DROP, MIN_TEMP_RISE).isDrifting

\* C30: for a reachable unit discovered out of max mode whose history the
\* detector reports as not drifting, the drift check makes no gateway call
\* but the measurement read (no mode command, no log append, no callback) and
\* records action none.
C30_CalmUnitUntouched ==
    handler = "checkDrift" =>
        \A i \in 1..Len(snap) :
            (snap[i].reachable /\ snap[i].mode # "max" /\ ReportedCalm(i)) =>
                /\ StepsOf(snap[i].unit) = <<(<<"measure", "">>)>>
                /\ i <= Len(results)
                /\ results[i].action = "none"

\* one unit's setpoint drop is too recent to count, the other unit drifts
C30_Witness ==
    /\ handler = "checkDrift"
    /\ resp.code = 200
    /\ Len(snap) = 2
    /\ snap[1].reachable /\ snap[1].mode # "max" /\ ReportedCalm(1)
    /\ req.measured[snap[1].unit] # <<>>
    /\ results[1].action = "none"
    /\ results[2].action = "drift_reset_triggered"
\* The optional fields of a DriftDetection that are present
FieldsPresent(d) ==
    {f \in {"setpointDropTime", "tempAtDrop", "currentTemp", "tempRise", "minutesSinceDrop"} :
        d[f] # <<>>}

\* C31: the result of detectDrift has all of setpointDropTime, tempAtDrop,
\* currentTemp, tempRise and minutesSinceDrop when isDrifting is true and
\* none of them when it is false; a series without an index where the
\* setpoint decreases is not drifting; and minutesSinceDrop is
\* (serverTime - setpointDropTime) / 60 rounded to the nearest integer (a
\* half rounds up).
C31_FieldsOnlyWhenDrifting ==
    handler = "detectDrift" =>
        LET d == results[1]
        IN  /\ Cardinality(FieldsPresent(d)) = (IF d.isDrifting THEN 5 ELSE 0)
            /\ Drops = {} => ~d.isDrifting
            /\ d.isDrifting =>
                  LET secs == req.serverTime - d.setpointDropTime[1]
                      m == d.minutesSinceDrop[1]
                  IN  60 * m - 30 <= secs /\ secs < 60 * m + 30

\* a drop 1050 s before the server time is reported as 18 minutes ago
C31_Witness ==
    /\ handler = "detectDrift"
    /\ results[1].isDrifting
    /\ req.serverTime - results[1].setpointDropTime[1] = 1050
    /\ results[1].minutesSinceDrop = <<18>>
    /\ Cardinality(FieldsPresent(results[1])) = 5
\* The values of the response body that make the point p: (series, index)
\* pairs, the index counted from 0
ValuesMaking(p) ==
    {x \in (1..Len(req.body)) \X (0..(MaxValues + 1)) :
        /\ x[2] < Len(req.body[x[1]].value)
        /\ p.timestamp = req.body[x[1]].beg_time + x[2] * req.body[x[1]].step_time
        /\ p.temperature = req.body[x[1]].value[x[2] + 1][1]
        /\ p.setpoint = req.body[x[1]].value[x[2] + 1][2]}

\* Every (series, index) pair of the response body
AllValues ==
    {x \in (1..Len(req.body)) \X (0..(MaxValues + 1)) : x[2] < Len(req.body[x[1]].value)}

\* C32: parseMeasureData returns one point for each value of each series,
\* its timestamp beg_time + index * step_time and its temperature and
\* setpoint those of the value, and the list it returns is in ascending order
\* of timestamp, in whatever order the series came and whether or not they
\* overlap.
C32_OnePointPerValueSorted ==
    handler = "parseMeasureData" =>
        /\ Len(results) = Cardinality(AllValues)
        /\ \A j \in 1..Len(results) :
               Cardinality({k \in 1..Len(results) : results[k] = results[j]})
                   = Cardinality(ValuesMaking(results[j]))
        /\ \A j \in 1..(Len(results) - 1) : results[j].timestamp <= results[j + 1].timestamp

\* two series, the later one first, overlapping in time
C32_Witness ==
    /\ handler = "parseMeasureData"
    /\ Len(req.body) = 2
    /\ req.body[1].beg_time = 600 /\ req.body[1].step_time = 300
    /\ req.body[2].beg_time = 300 /\ req.body[2].step_time = 600
    /\ Len(req.body[1].value) = 2 /\ Len(req.body[2].value) = 2
    /\ Len(results) = 4
    /\ results[1].timestamp = 300
    /\ results[4].timestamp = 900
\* C33: the callback the threshold check schedules for a unit it triggers
\* carries that unit's homeId and roomId and the setpoint of its discovery
\* snapshot as originalSetpoint, one callback for each triggered unit; and
\* every gateway call of an authenticated reset names the handle of the
\* payload, the home command and the reset_completed entry among them, the
\* entry made of the temperature just read and the payload's
\* originalSetpoint: nothing else of the scheduling invocation is used.
C33_PayloadCarriesHandle ==
    /\ handler = "checkThreshold" =>
          /\ \A i \in 1..Len(trace) :
                 trace[i].op = "schedule" =>
                     \E j \in 1..Len(snap) :
                         /\ snap[j].unit = trace[i].unit
                         /\ snap[j].setpoint = trace[i].v1
                         /\ StepsOf(snap[j].unit) = OverageSteps
                         /\ queue[ResetPayload(snap[j].unit, snap[j].setpoint)] >= 1
          /\ \A j \in 1..Len(results) :
                 results[j].action = "reset_triggered" =>
                     HowOften("schedule", "", results[j].unit) = 1
    /\ (/\ handler = "reset"
        /\ req.signature \in {"current", "next"}
        /\ req.body.kind = "json"
        /\ req.body.payload \in Payloads) =>
          LET u == Handle(req.body.payload.homeId, req.body.payload.roomId)
              currentTemp == IF req.room = <<>> THEN 0 ELSE req.room[1]
          IN  /\ \A i \in 1..Len(trace) : trace[i].unit = u
              /\ resp.code = 200 =>
                    /\ HowOften("cmd", "home", u) = 1
                    /\ \E i \in 1..Len(trace) :
                           /\ trace[i].op = "log" /\ trace[i].kind = "reset_completed"
                           /\ trace[i].v1 = currentTemp
                           /\ trace[i].v2 = req.body.payload.originalSetpoint

\* the callback of a unit a check had put in max mode has been delivered and
\* answered 200
C33_Witness ==
    /\ handler = "reset"
    /\ req.signature = "current"
    /\ resp.code = 200
    /\ Len(snap) = 1 /\ snap[1].mode = "max"
    /\ req.room # <<>>
    /\ Did("cmd", "home", snap[1].unit)
    /\ Did("log", "reset_completed", snap[1].unit)
    /\ mode[snap[1].unit] = "schedule"
\* The n entries inserted last
MostRecent(n) ==
    {appends.order[i] : i \in {j \in 1..Len(appends.order) : j > Len(appends.order) - n}}

\* C34: with invocations of logEvent running side by side, each a ZADD, a
\* ZCARD and a ZREMRANGEBYRANK of its own, no step removes an entry that is
\* among the MAX_EVENTS_TO_KEEP inserted last, and a store that holds
\* MAX_EVENTS_TO_KEEP entries or more never goes below that number.
C34_TrimKeepsRecent ==
    [][/\ (events \ events') \cap MostRecent(MAX_EVENTS_TO_KEEP) = {}
       /\ Cardinality(events) >= MAX_EVENTS_TO_KEEP =>
              Cardinality(events') >= MAX_EVENTS_TO_KEEP]_vars

\* The vendor has rotated the refresh token on each exchange it accepted
RotatedEachTime ==
    \A k \in 1..Len(exchanges) :
        exchanges[k].ok => exchanges[k].refresh \notin {NoToken, exchanges[k].used}

\* C35: when invocations have refreshed the access token side by side, in
\* whatever interleaving, and the vendor has rotated the refresh token on each
\* exchange, the refresh-token key is left holding the token the vendor
\* issued last, never one a later rotation has superseded.
C35_StoreHoldsNewestToken ==
    (/\ Over = Procs
     /\ \A p \in Procs : inv[p].raced
     /\ RotatedEachTime
     /\ \E k \in 1..Len(exchanges) : exchanges[k].ok) =>
        kv.refresh = oauth.refresh

\* Step i of the trace is the completed call op/kind for unit u
IsStep(i, op, kind, u) == trace[i].op = op /\ trace[i].kind = kind /\ trace[i].unit = u

\* The steps of the trace that log an entry of the given type
LogSteps(type) == {i \in 1..Len(trace) : trace[i].op = "log" /\ trace[i].kind = type}

\* C36: in a cycle of either check handler a reset_triggered entry is logged
\* for a handle only after the max command for that handle has succeeded,
\* and that only after the overage_detected entry for the handle has been
\* logged in the same cycle; in the check's failsafe and in the reset
\* handler a reset_completed entry is logged for a handle only after the home
\* command for that handle has succeeded.
C36_EntriesFollowCommands ==
    /\ \A i \in LogSteps("reset_triggered") :
           \E j \in 1..(i - 1) :
               /\ IsStep(j, "cmd", "max", trace[i].unit)
               /\ \E k \in 1..(j - 1) : IsStep(k, "log", "overage_detected", trace[i].unit)
    /\ \A i \in LogSteps("reset_completed") :
           \E j \in 1..(i - 1) : IsStep(j, "cmd", "home", trace[i].unit)

C36_Witness ==
    /\ handler = "checkDrift"
    /\ LogSteps("reset_triggered") # {}
    /\ LogSteps("reset_completed") # {}

\* C37: every logEvent call that completes adds exactly one entry to the
\* store before the trim, also when an entry of the same type, handle,
\* temperatures and millisecond timestamp has been logged before (two
\* reset_completed events of one callback delivered twice).
C37_EachCallAddsOneEntry ==
    \A i \in 1..Len(trace) : trace[i].op = "log" => trace[i].added = 1
====
